---------------------------- MODULE Spec2Model ----------------------------
(***************************************************************************)
(* A model of pullsheet's ingestion pipeline: the retrying call executor   *)
(* (ghcache.RetryGithubCall), the page aggregators (fetchAll...Pages), the *)
(* fetch-or-cache helpers (ghcache.PullRequestsGet, ghcache.IssuesGet) and *)
(* the filter pipelines (repo.MergedPulls, repo.issues/ClosedIssues,       *)
(* repo.ListRepoNames).                                                    *)
(*                                                                         *)
(* Go values are records tagged with a "kind" field, so that nil, a typed  *)
(* payload and an error can be compared with each other.                   *)
(***************************************************************************)
EXTENDS Integers, Sequences, FiniteSets, TLC

(***************************************************************************)
(* Bounds of the model (not program constants).                            *)
(***************************************************************************)
\* Distinct payload values a remote call can answer with in the retry harness.
MaxPayloads == 2
\* Requests one aggregation may send: the server ends the listing by then.
MaxPages == 3
\* Items on one page of a listing.
MaxPageLen == 2
\* Items in the whole listing a pipeline is given.
MaxItems == 2
\* Instants 1..MaxTime; since is later than the first of them.
MaxTime == 3

(***************************************************************************)
(* Program constants.                                                      *)
(***************************************************************************)
\* retry.Do is called without retry.Attempts: retry-go's default of 10 tries.
Attempts == 10
\* MergedPulls: ListOptions{PerPage: 100}
PullsPerPage == 100
\* issues: ListOptions{PerPage: 50}
IssuesPerPage == 50
\* fetchAllIssuePages: the default of ListCursorOptions.PerPage
DefaultPerPage == 100
\* ListRepoNames: ListOptions{PerPage: 100}
ReposPerPage == 100

(***************************************************************************)
(* Go values.                                                              *)
(***************************************************************************)
Nil == [kind |-> "nil"]

\* The error the GitHub client returned on attempt number k (from 1) of a
\* call: every failure is an error value of its own.
ApiError(k) == [kind |-> "api", attempt |-> k]

\* ctx.Err() of a cancelled context.
CtxErr == [kind |-> "context.Canceled"]

\* retry.Error: the log of every attempt's error, "#1: ... #n: ...".
RetryError(log) == [kind |-> "retry.Error", errs |-> log]

\* fmt.Errorf("%s after retries: %w", callDesc, retryErr)
WrapAfterRetries(desc, cause) ==
    [kind |-> "wrapped", msg |-> "after retries", desc |-> desc, cause |-> cause]

\* The *github.Response of a call, in the retry harness.
Resp(r) == [kind |-> "response", id |-> r]

\* An opaque payload, in the retry harness.
Payload(p) == [kind |-> "payload", id |-> p]

\* What apiCallFunc can return: (data, resp, err). A failed call may still
\* carry a response and partial data (go-github returns the response with
\* the error).
Outcome(d, r, e) == [data |-> d, resp |-> r, err |-> e]

\* The answers attempt number k (from 1) can get.
HarnessOutcomes(k) ==
    { Outcome(d, r, e) :
        d \in {Nil} \cup { Payload(p) : p \in 1..MaxPayloads },
        r \in {Nil} \cup { Resp(p) : p \in 1..MaxPayloads },
        e \in {Nil, ApiError(k)} }

CallDescs == { "PullRequests.Get o/p#1", "Issues.Get o/p#1" }

VARIABLES
    \* ---- RetryGithubCall (one call in flight) ----
    callDesc,   \* the callDesc argument
    ctxDone,    \* whether ctx has been cancelled
    rpc,        \* position in retry.Do / RetryGithubCall
    n,          \* retry.Do's attempt counter
    data,       \* var data interface{}
    ghResp,     \* var ghResp *github.Response
    opError,    \* var opError error
    errorLog,   \* retry.Do's errorLog
    retryErr,   \* retryErr := retry.Do(...)
    ret,        \* what RetryGithubCall returned: (data, resp, err)
    apiCalls,   \* number of times apiCallFunc was invoked
    warnings,   \* number of OnRetry warnings logged
    lastOut,    \* what apiCallFunc returned when it was last invoked
    \* ---- a page aggregator (fetchAll...Pages) ----
    entry,       \* the function that was called
    agg,         \* the page aggregator it uses
    apc,         \* position in the aggregator
    listOpts,    \* the listOpts argument
    currentOpts, \* currentOpts, the copy whose paging fields are advanced
    cursor,      \* currentAfterCursor / currentPageToken
    allItems,    \* allPRs / allIssues / allGithubRepos
    aggRet,      \* what the aggregator returned: (items, err)
    reqs,        \* the options of every request sent, in order
    answers,     \* the (data, resp) of every answered request, in order
    \* ---- a pipeline (MergedPulls, issues/ClosedIssues, ListRepoNames) ----
    since,       \* the since argument
    until,       \* the until argument
    users,       \* the users argument (allow-list of logins)
    branches,    \* the branches argument (allow-list of branch names)
    ppc,         \* position in the pipeline
    fetched,     \* allFetchedPRs / allFetchedIssues / githubRepos
    idx,         \* position of the range loop in fetched (from 1)
    result,      \* result: a slice is the sequence of its elements
    pipeRet,     \* what the pipeline returned: (result, err)
    cache,       \* c.Cache: key -> blob
    lastOp,      \* what the last loop iteration did with its candidate
    \* ---- PullSummary ----
    prs,         \* the prs argument, in the order range visits its entries
    sumRet,      \* what PullSummary returned: (sum, err)
    \* ---- the issue charts of the leaderboard ----
    is,          \* the is argument: the issue summaries
    chart,       \* the chart that was returned
    \* ---- runs of one pipeline over the same repository ----
    remote,      \* the detail record the remote API serves, by number
    run,         \* the current run: its number and what its calls did
    inst,        \* the pipeline instances that run concurrently
    \* ---- a fetch-or-cache helper called on its own ----
    help         \* the helper call in progress and what it did so far

retryVars == << callDesc, ctxDone, rpc, n, data, ghResp, opError, errorLog,
                retryErr, ret, apiCalls, warnings,
                    lastOut >>

aggVars == << entry, agg, apc, listOpts, currentOpts, cursor, allItems,
              aggRet, reqs, answers >>

pipeVars == << since, until, users, branches, ppc, fetched, idx, result,
               pipeRet, cache, lastOp >>

sumVars == << prs, sumRet >>

chartVars == << is, chart >>

runVars == << remote, run, inst, help >>

vars == << retryVars, aggVars, pipeVars, sumVars, chartVars, runVars >>

NoRet == [kind |-> "none"]

\* apiCallFunc has not been invoked yet.
NoOut == [kind |-> "none"]

Returned(d, r, e) == [kind |-> "return", data |-> d, resp |-> r, err |-> e]

(***************************************************************************)
(* RetryGithubCall: retry.Do with retry.Context(ctx), BackOffDelay and     *)
(* jitter, around the closure that assigns data, ghResp, opError.          *)
(***************************************************************************)

\* The closure passed to retry.Do, and retry.Do's handling of its result:
\* the state after apiCallFunc answered out on attempt number k (from 0)
\* with the errors logged so far in log.
AfterAttemptDropLog(k, log, out) ==
    [ data     |-> out.data,
      ghResp   |-> out.resp,
      opError  |-> out.err,
      errorLog |-> IF out.err = Nil THEN log ELSE <<out.err>>,
      next     |-> IF out.err = Nil THEN "return"
                   ELSE IF k = Attempts - 1 THEN "return" ELSE "backoff",
      retryErr |-> IF out.err = Nil THEN Nil
                   ELSE IF k = Attempts - 1
                        THEN RetryError(<<out.err>>)
                        ELSE Nil ]

AfterAttemptOneMore(k, log, out) ==
    [ data     |-> out.data,
      ghResp   |-> out.resp,
      opError  |-> out.err,
      errorLog |-> IF out.err = Nil THEN log ELSE Append(log, out.err),
      next     |-> IF out.err = Nil THEN "return"
                   ELSE IF k = Attempts THEN "return" ELSE "backoff",
      retryErr |-> IF out.err = Nil THEN Nil
                   ELSE IF k = Attempts
                        THEN RetryError(Append(log, out.err))
                        ELSE Nil ]

AfterAttemptKeepPayload(k, log, out) ==
    [ data     |-> IF out.data = Nil THEN data ELSE out.data,
      ghResp   |-> IF out.resp = Nil THEN ghResp ELSE out.resp,
      opError  |-> out.err,
      errorLog |-> IF out.err = Nil THEN log ELSE Append(log, out.err),
      next     |-> IF out.err = Nil THEN "return"
                   ELSE IF k = Attempts - 1 THEN "return" ELSE "backoff",
      retryErr |-> IF out.err = Nil THEN Nil
                   ELSE IF k = Attempts - 1
                        THEN RetryError(Append(log, out.err))
                        ELSE Nil ]

AfterAttempt(k, log, out) ==
    [ data     |-> out.data,
      ghResp   |-> out.resp,
      opError  |-> out.err,
      errorLog |-> IF out.err = Nil THEN log ELSE Append(log, out.err),
      next     |-> IF out.err = Nil THEN "return"
                   ELSE IF k = Attempts - 1 THEN "return" ELSE "backoff",
      retryErr |-> IF out.err = Nil THEN Nil
                   ELSE IF k = Attempts - 1
                        THEN RetryError(Append(log, out.err))
                        ELSE Nil ]

\* The tail of RetryGithubCall: nil, nil and the wrapped error when retry.Do
\* failed, else the values the closure captured.
RetryResultKeepData(desc, d, r, rerr) ==
    IF rerr # Nil
    THEN Returned(d, r, WrapAfterRetries(desc, rerr))
    ELSE Returned(d, r, Nil)

RetryResult(desc, d, r, rerr) ==
    IF rerr # Nil
    THEN Returned(Nil, Nil, WrapAfterRetries(desc, rerr))
    ELSE Returned(d, r, Nil)

\* retry.Do first checks the context.
RetryStart ==
    /\ rpc = "start"
    /\ IF ctxDone
       THEN /\ retryErr' = CtxErr
            /\ rpc' = "return"
       ELSE /\ retryErr' = retryErr
            /\ rpc' = "attempt"
    /\ UNCHANGED << callDesc, ctxDone, n, data, ghResp, opError, errorLog,
                    ret, apiCalls, warnings,
                    lastOut >>

\* One attempt: the closure runs apiCallFunc and retry.Do looks at its error.
RetryAttempt ==
    /\ rpc = "attempt"
    /\ \E out \in HarnessOutcomes(n + 1) :
         LET a == AfterAttempt(n, errorLog, out) IN
         /\ data' = a.data
         /\ ghResp' = a.ghResp
         /\ opError' = a.opError
         /\ errorLog' = a.errorLog
         /\ retryErr' = a.retryErr
         /\ rpc' = a.next
         /\ warnings' = IF out.err = Nil THEN warnings ELSE warnings + 1
         /\ lastOut' = out
    /\ apiCalls' = apiCalls + 1
    /\ UNCHANGED << callDesc, ctxDone, n, ret >>

\* The backoff delay elapses whether or not the context is cancelled.
RetryBackoffIgnoreCtx ==
    /\ rpc = "backoff"
    /\ n' = n + 1
    /\ rpc' = "attempt"
    /\ UNCHANGED << callDesc, ctxDone, data, ghResp, opError, errorLog,
                    retryErr, ret, apiCalls, warnings, lastOut >>

\* The backoff delay elapses before the context is cancelled: n++.
RetryBackoffElapsed ==
    /\ rpc = "backoff"
    /\ ~ctxDone
    /\ n' = n + 1
    /\ rpc' = "attempt"
    /\ UNCHANGED << callDesc, ctxDone, data, ghResp, opError, errorLog,
                    retryErr, ret, apiCalls, warnings,
                    lastOut >>

\* The context is cancelled during the backoff wait: retry.Do returns
\* ctx.Err().
RetryBackoffCancelled ==
    /\ rpc = "backoff"
    /\ ctxDone
    /\ retryErr' = CtxErr
    /\ rpc' = "return"
    /\ UNCHANGED << callDesc, ctxDone, n, data, ghResp, opError, errorLog,
                    ret, apiCalls, warnings,
                    lastOut >>

RetryReturn ==
    /\ rpc = "return"
    /\ ret' = RetryResult(callDesc, data, ghResp, retryErr)
    /\ rpc' = "done"
    /\ UNCHANGED << callDesc, ctxDone, n, data, ghResp, opError, errorLog,
                    retryErr, apiCalls, warnings,
                    lastOut >>

\* The caller's context is cancelled while the call is in flight.
CancelCtx ==
    /\ ~ctxDone
    /\ rpc # "done"
    /\ ctxDone' = TRUE
    /\ UNCHANGED << callDesc, rpc, n, data, ghResp, opError, errorLog,
                    retryErr, ret, apiCalls, warnings,
                    lastOut >>

\* No aggregator is running.
AggIdle ==
    /\ entry = "RetryGithubCall"
    /\ agg = "none"
    /\ apc = "idle"
    /\ listOpts = Nil
    /\ currentOpts = Nil
    /\ cursor = ""
    /\ allItems = <<>>
    /\ aggRet = NoRet
    /\ reqs = <<>>
    /\ answers = <<>>

NoOp == [kind |-> "none"]

\* The cache with no entry.
EmptyCache == [k \in {} |-> Nil]

\* No pipeline is running.
PipeIdle ==
    /\ since = 0
    /\ until = 0
    /\ users = <<>>
    /\ branches = <<>>
    /\ ppc = "idle"
    /\ fetched = <<>>
    /\ idx = 0
    /\ result = <<>>
    /\ pipeRet = NoRet
    /\ cache = EmptyCache
    /\ lastOp = NoOp

\* PullSummary is not running.
SumIdle ==
    /\ prs = <<>>
    /\ sumRet = NoRet

\* No chart is being drawn.
ChartIdle ==
    /\ is = <<>>
    /\ chart = NoRet

\* No pipeline is run again or beside another.
NoRun == [no |-> 0, clean |-> TRUE, hits |-> 0, fetches |-> 0]

\* No helper is called on its own.
NoHelp ==
    [ fn |-> "none", repo |-> <<>>, num |-> 0, key |-> <<>>, pc |-> "idle",
      page |-> 0, acc |-> <<>>, answers |-> <<>>, sets |-> 0, hit |-> FALSE,
      val |-> <<>>, err |-> [kind |-> "nil"], c0 |-> << >>, owner |-> << >>,
      calls |-> 0 ]

RunIdle ==
    /\ remote = <<>>
    /\ run = NoRun
    /\ inst = <<>>
    /\ help = NoHelp

RetryInit ==
    /\ callDesc \in CallDescs
    /\ ctxDone \in BOOLEAN
    /\ rpc = "start"
    /\ n = 0
    /\ data = Nil
    /\ ghResp = Nil
    /\ opError = Nil
    /\ errorLog = <<>>
    /\ retryErr = Nil
    /\ ret = NoRet
    /\ apiCalls = 0
    /\ warnings = 0
    /\ lastOut = NoOut
    /\ AggIdle
    /\ PipeIdle
    /\ SumIdle
    /\ ChartIdle
    /\ RunIdle

RetryNext ==
    \/ RetryStart /\ UNCHANGED << aggVars, pipeVars, sumVars, chartVars, runVars >>
    \/ RetryAttempt /\ UNCHANGED << aggVars, pipeVars, sumVars, chartVars, runVars >>
    \/ RetryBackoffElapsed /\ UNCHANGED << aggVars, pipeVars, sumVars, chartVars, runVars >>
    \/ RetryBackoffCancelled /\ UNCHANGED << aggVars, pipeVars, sumVars, chartVars, runVars >>
    \/ RetryReturn /\ UNCHANGED << aggVars, pipeVars, sumVars, chartVars, runVars >>
    \/ CancelCtx /\ UNCHANGED << aggVars, pipeVars, sumVars, chartVars, runVars >>

SpecRetry == RetryInit /\ [][RetryNext]_vars

\* The steps of the goroutine that runs RetryGithubCall.  The goroutine is
\* scheduled, apiCallFunc answers (with a result or an error) and the timer
\* of a backoff wait fires, so a step that stays possible is taken.  The
\* cancellation of the context is the caller's and may never happen.
RetrySteps ==
    \/ RetryStart /\ UNCHANGED << aggVars, pipeVars, sumVars, chartVars, runVars >>
    \/ RetryAttempt /\ UNCHANGED << aggVars, pipeVars, sumVars, chartVars, runVars >>
    \/ RetryBackoffElapsed /\ UNCHANGED << aggVars, pipeVars, sumVars, chartVars, runVars >>
    \/ RetryBackoffCancelled /\ UNCHANGED << aggVars, pipeVars, sumVars, chartVars, runVars >>
    \/ RetryReturn /\ UNCHANGED << aggVars, pipeVars, sumVars, chartVars, runVars >>

SpecRetryLive == RetryInit /\ [][RetryNext]_vars /\ WF_vars(RetrySteps)

(***************************************************************************)
(* RetryGithubCall as one call: what it returns when the successive        *)
(* attempts of apiCallFunc answer outs[1], outs[2], ... and the context is *)
(* cancelled, or not, when the call starts.                                *)
(***************************************************************************)
RECURSIVE RetryDo(_, _, _, _)
RetryDo(desc, outs, k, log) ==
    LET a == AfterAttempt(k, log, outs[k + 1]) IN
    IF a.next = "return"
    THEN RetryResult(desc, a.data, a.ghResp, a.retryErr)
    ELSE RetryDo(desc, outs, k + 1, a.errorLog)

RetryGithubCall(desc, outs, cancelled) ==
    IF cancelled
    THEN RetryResult(desc, Nil, Nil, CtxErr)
    ELSE RetryDo(desc, outs, 0, <<>>)

\* k failed attempts.
FailOuts(k) == [i \in 1..k |-> Outcome(Nil, Nil, ApiError(i))]

\* How many attempts fail before one succeeds: none, one, all but the last.
FailCounts == {0, 1, Attempts - 1}

\* The ways a call can go whose successful answer is one of oks: it fails
\* on every attempt, or succeeds after some failures.
CallOuts(oks) ==
    { FailOuts(Attempts) } \cup
    { Append(FailOuts(k), Outcome(a.data, a.resp, Nil)) :
        k \in FailCounts, a \in oks }

(***************************************************************************)
(* C10: when all attempts have been made and each failed, RetryGithubCall  *)
(* returns the call description wrapped around retry.Do's error, which     *)
(* lists one failure per attempt, the last attempt's failure last, and it  *)
(* returns a nil payload and nil response metadata whatever the attempts   *)
(* had stored in data and ghResp.                                          *)
(***************************************************************************)
Exhausted == rpc = "done" /\ apiCalls = Attempts /\ opError # Nil

C10_ExhaustionError ==
    Exhausted =>
        /\ ret.err = WrapAfterRetries(callDesc, RetryError(errorLog))
        /\ Len(ret.err.cause.errs) = Attempts
        /\ ret.err.cause.errs[Attempts] = opError
        /\ opError = ApiError(Attempts)
        /\ ret.data = Nil
        /\ ret.resp = Nil

\* All attempts failed, the last one leaving partial data and a response.
C10_Witness ==
    /\ Exhausted
    /\ data # Nil
    /\ ghResp # Nil
    /\ ret.data = Nil
    /\ ret.err.desc = callDesc


(***************************************************************************)
(* The page aggregators.                                                   *)
(*   fetchAllPullRequestPages               pr.go      offset mode         *)
(*   fetchAllRepoPages                      repos.go   offset mode         *)
(*   FetchPullRequestsListPagesWithRetries  pr.go      offset mode         *)
(*   fetchAllIssuePages                     issue.go   cursor mode (After) *)
(*   fetchAllIssuePagesToken                the fetchAllIssuePages of the  *)
(*                                          second issue source file,      *)
(*                                          cursor mode (NextPageToken)    *)
(***************************************************************************)
OffsetAggs == { "fetchAllPullRequestPages", "fetchAllRepoPages",
                "FetchPullRequestsListPagesWithRetries" }

CursorAggs == { "fetchAllIssuePages", "fetchAllIssuePagesToken" }

\* The cursors and tokens a server hands out.
Cursors == { "c1", "c2" }

\* github.ListOptions / ListCursorOptions as the callers build them: only
\* ListOptions.PerPage is set.
Opts(perPage) ==
    [ Page |-> 0, PerPage |-> perPage, CursorPage |-> "", CursorPerPage |-> 0,
      First |-> 0, After |-> "", PageToken |-> "" ]

\* The listOpts each aggregator gets from its caller.
ListOptsOf(a) ==
    CASE a = "fetchAllPullRequestPages" -> Opts(PullsPerPage)
      [] a = "FetchPullRequestsListPagesWithRetries" -> Opts(PullsPerPage)
      [] a = "fetchAllRepoPages" -> Opts(ReposPerPage)
      [] OTHER -> Opts(IssuesPerPage)

\* A successful answer of a listing call: the page and the response
\* metadata (Response.NextPage, .After, .NextPageToken).
ListResponse(np, after, tok) ==
    [kind |-> "response", NextPage |-> np, After |-> after, NextPageToken |-> tok]

PageOf(items) == [kind |-> "page", items |-> items]

ListAnswer(items, np, after, tok) ==
    [data |-> PageOf(items), resp |-> ListResponse(np, after, tok)]

\* An item of a listing whose fields no aggregator reads: the item's number
\* in the order the server sent it.
OpaquePages(sent) ==
    { [i \in 1..k |-> [num |-> sent + i]] : k \in 0..MaxPageLen }

-----------------------------------------------------------------------------
\* Values the pipelines read: time.Time, strings, github.User,
\* github.PullRequest, github.Issue, github.Repository.

\* time.Time{}: the zero time, before every instant of 1..MaxTime.
ZeroTime == 0

Times == 1..MaxTime

IsZero(t) == t = ZeroTime

Before(t, u) == t < u

After(t, u) == t > u

\* A string is the sequence of its characters.
LowerOf(ch) ==
    CASE ch = "A" -> "a"
      [] ch = "B" -> "b"
      [] ch = "M" -> "m"
      [] OTHER -> ch

\* strings.ToLower
ToLower(s) == [i \in DOMAIN s |-> LowerOf(s[i])]

\* strings.HasSuffix
HasSuffix(s, suffix) ==
    /\ Len(s) >= Len(suffix)
    /\ SubSeq(s, Len(s) - Len(suffix) + 1, Len(s)) = suffix

DigitChars == << "0", "1", "2", "3", "4", "5", "6", "7", "8", "9" >>

RECURSIVE Itoa(_)
\* %d of a number that is not negative
Itoa(k) ==
    IF k < 10 THEN << DigitChars[k + 1] >>
    ELSE Itoa(k \div 10) \o << DigitChars[(k % 10) + 1] >>

User(login) == [kind |-> "user", Login |-> login]

\* u.GetLogin(): the empty string of a nil user
GetLogin(u) == IF u = Nil THEN <<>> ELSE u.Login

Alice == << "a", "l" >>

Bob == << "b", "o" >>

AliceUpper == << "A", "l" >>

BobUpper == << "B", "o" >>

\* A login with a bot suffix.
DeployBot == << "d", "-", "b", "o", "t" >>

\* Branch names.
Main == << "m", "a" >>

MainUpper == << "M", "a" >>

Dev == << "d", "e" >>

\* A login with a bot suffix is a bot.
isBot(u) == HasSuffix(GetLogin(u), << "b", "o", "t" >>)

\* github.PullRequest, as the list call and the detail call both return it.
PullRequest(num, updated, closed, merged, user, st, ref, isMerged, sha) ==
    [ kind |-> "pr", Number |-> num, UpdatedAt |-> updated, ClosedAt |-> closed,
      MergedAt |-> merged, User |-> user, State |-> st, BaseRef |-> ref,
      Merged |-> isMerged, MergeCommitSHA |-> sha, MergedBy |-> Nil ]

\* github.Issue; IsPR is PullRequestLinks != nil.
Issue(num, isPR, updated, closed, created, st, user, closedBy) ==
    [ kind |-> "issue", Number |-> num, IsPR |-> isPR, UpdatedAt |-> updated,
      ClosedAt |-> closed, CreatedAt |-> created, State |-> st, User |-> user,
      ClosedBy |-> closedBy ]

Repository(name) == [kind |-> "repo", Name |-> name]

\* The getters of a nil *github.PullRequest or *github.Issue return zero
\* values.
GetBaseRef(p) == IF p = Nil THEN <<>> ELSE p.BaseRef

GetMerged(p) == IF p = Nil THEN FALSE ELSE p.Merged

GetMergeCommitSHA(p) == IF p = Nil THEN "" ELSE p.MergeCommitSHA

GetMergedAt(p) == IF p = Nil THEN ZeroTime ELSE p.MergedAt

GetClosedAt(p) == IF p = Nil THEN ZeroTime ELSE p.ClosedAt

GetUser(p) == IF p = Nil THEN Nil ELSE p.User

GetClosedBy(p) == IF p = Nil THEN Nil ELSE p.ClosedBy

GetNumber(p) == IF p = Nil THEN 0 ELSE p.Number

\* The arguments org and project of every pipeline.
org == << "o" >>

project == << "p" >>

\* The state argument ClosedIssues passes to issues.
state == "closed"

\* The pull requests a list call can return at position num of the listing.
PullItems(num) ==
    { PullRequest(num, u, c, ZeroTime, User(Alice), "closed", <<>>, FALSE, "") :
        u \in Times, c \in {ZeroTime} \cup Times }

\* The target branch of the detail record: the one the listing names, Main
\* when the listing names none.
DetailRef(pr) == IF pr.BaseRef = <<>> THEN Main ELSE pr.BaseRef

\* The answers PullRequests.Get can give for the listed pull request pr.
PullDetails(pr) ==
    { [pr EXCEPT !.BaseRef = DetailRef(pr)] }
    \cup { [pr EXCEPT !.BaseRef = DetailRef(pr), !.Merged = TRUE,
                      !.MergedAt = t, !.MergeCommitSHA = "sha"] :
             t \in {ZeroTime} \cup Times }
    \cup { [pr EXCEPT !.BaseRef = DetailRef(pr), !.Merged = TRUE,
                      !.MergedAt = pr.ClosedAt] }

\* The issues a list call can return at position num of the listing.
IssueItems(num) ==
    { Issue(num, FALSE, u, c, 1, "closed", User(Alice), Nil) :
        u \in Times, c \in {ZeroTime} \cup Times }
    \cup { Issue(num, TRUE, u, u, 1, "closed", User(Alice), Nil) : u \in Times }

\* The answers Issues.Get can give for the listed issue i.
IssueDetails(i) ==
    { [i EXCEPT !.ClosedBy = closer, !.ClosedAt = c] :
        closer \in {Nil, User(Bob), i.ClosedBy}, c \in {i.ClosedAt, ZeroTime} }

RepoItems(num) == { Repository(<< "r", DigitChars[num + 1] >>) }

\* The items the server can send at position num of the listing, by what
\* is being listed.
ItemsAt(num) ==
    CASE entry = "MergedPulls" -> PullItems(num)
      [] entry = "ClosedIssues" -> IssueItems(num)
      [] entry = "ListRepoNames" -> RepoItems(num)
      [] OTHER -> { [num |-> num] }

RECURSIVE PagesOfLen(_, _)
\* The pages of k items a listing can continue with after sent items.
PagesOfLen(sent, k) ==
    IF k = 0 THEN { <<>> }
    ELSE { Append(p, x) : p \in PagesOfLen(sent, k - 1), x \in ItemsAt(sent + k) }

\* The pages a listing can continue with after sent items.
ItemPages(sent) ==
    UNION { PagesOfLen(sent, k) : k \in { m \in 0..MaxPageLen : sent + m <= MaxItems } }

\* The pages the server can send next: of a pipeline's listing, or of an
\* aggregator that runs alone.
Pages(sent) == IF entry = agg THEN OpaquePages(sent) ELSE ItemPages(sent)

\* Payloads that are not of the type the caller asserts: a nil interface
\* and a value of another type.
OddPayloads == { Nil, Payload(1) }

\* The answers the server can give to the next request of an aggregation
\* that was handed pages as the possible pages: any page, with any signal
\* for the next page; the last request the bound allows ends the listing.
ServerAnswers(pages) ==
    LET last == Len(reqs) + 1 >= MaxPages
        \* a skipped page number and the value of a cursor are answers only
        \* an aggregator can tell apart: they are explored where an
        \* aggregator runs alone, not under a pipeline
        alone == entry = agg
        nextPages == IF agg \in OffsetAggs /\ ~last
                     THEN {0, currentOpts.Page + 1}
                          \cup (IF alone THEN {currentOpts.Page + 2} ELSE {})
                     ELSE {0}
        nextCursors == IF agg \in CursorAggs /\ ~last
                       THEN {""} \cup (IF alone THEN Cursors ELSE {"c1"})
                       ELSE {""}
        \* a payload of another shape, with any response or none
        odd == IF alone
               THEN { [data |-> d, resp |-> r] :
                        d \in OddPayloads,
                        r \in {Nil} \cup { ListResponse(np, c, c) :
                                              np \in nextPages, c \in nextCursors } }
               ELSE {}
    IN  { ListAnswer(items, np, c, c) :
            items \in pages, np \in nextPages, c \in nextCursors } \cup odd

\* fmt.Errorf("unexpected type from GitHub API for %s: %T ...", callDesc, rawData)
UnexpectedType(desc) == [kind |-> "unexpected type", desc |-> desc]

\* callDesc of a listing call: the call and the page or cursor it names.
ListCallDesc(a, o) ==
    [ call |-> a, page |-> o.Page, after |-> o.After, first |-> o.First,
      token |-> o.PageToken ]

AggReturn(items, e) == [kind |-> "return", items |-> items, err |-> e]

\* The options a caller can hand to an aggregator.  The options of
\* fetchAllIssuePages embed ListOptions and ListCursorOptions, so a caller
\* can have filled in a page number, a string page, First or After; the
\* options of the offset aggregators have no cursor fields.
CallerOpts(a) ==
    IF a = "fetchAllIssuePages"
    THEN { [ListOptsOf(a) EXCEPT !.Page = p, !.CursorPage = cp,
                                 !.First = f, !.After = af] :
             p \in {0, 2}, cp \in {"", "2"}, f \in {0, 7}, af \in {"", "c2"} }
    ELSE { ListOptsOf(a) }

\* The entry of each aggregator: the copy of listOpts it starts from.
StartOptsKeepCallerPage(a, lo) ==
    CASE a \in { "fetchAllPullRequestPages", "fetchAllRepoPages" } ->
            [lo EXCEPT !.Page = IF lo.Page = 0 THEN 1 ELSE lo.Page]
      [] a = "FetchPullRequestsListPagesWithRetries" ->
            [lo EXCEPT !.Page = 0]
      [] a = "fetchAllIssuePages" ->
            [lo EXCEPT !.CursorPerPage =
                           IF lo.CursorPerPage = 0
                           THEN IF lo.PerPage # 0 THEN lo.PerPage ELSE DefaultPerPage
                           ELSE lo.CursorPerPage,
                       !.PerPage = 0, !.First = 0]
      [] OTHER -> [lo EXCEPT !.Page = 0]

StartOptsKeepPage(a, lo) ==
    CASE a \in { "fetchAllPullRequestPages", "fetchAllRepoPages" } ->
            [lo EXCEPT !.Page = 0]
      [] a = "FetchPullRequestsListPagesWithRetries" ->
            [lo EXCEPT !.Page = 0]
      [] a = "fetchAllIssuePages" ->
            [lo EXCEPT !.Page = 0, !.CursorPage = "",
                       !.CursorPerPage =
                           IF lo.CursorPerPage = 0
                           THEN IF lo.PerPage # 0 THEN lo.PerPage ELSE DefaultPerPage
                           ELSE lo.CursorPerPage,
                       !.PerPage = 0, !.First = 0]
      [] OTHER -> [lo EXCEPT !.Page = 0]

StartOpts(a, lo) ==
    CASE a \in { "fetchAllPullRequestPages", "fetchAllRepoPages" } ->
            [lo EXCEPT !.Page = IF lo.Page = 0 THEN 1 ELSE lo.Page]
      [] a = "FetchPullRequestsListPagesWithRetries" ->
            [lo EXCEPT !.Page = 0]
      [] a = "fetchAllIssuePages" ->
            [lo EXCEPT !.Page = 0, !.CursorPage = "",
                       !.CursorPerPage =
                           IF lo.CursorPerPage = 0
                           THEN IF lo.PerPage # 0 THEN lo.PerPage ELSE DefaultPerPage
                           ELSE lo.CursorPerPage,
                       !.PerPage = 0, !.First = 0]
      [] OTHER -> [lo EXCEPT !.Page = 0]

AggStart ==
    /\ apc = "start"
    /\ currentOpts' = StartOpts(agg, listOpts)
    /\ cursor' = ""
    /\ allItems' = <<>>
    /\ apc' = "loop"
    /\ UNCHANGED << entry, agg, listOpts, aggRet, reqs, answers >>

\* The options of the request the loop is about to send.
RequestOptsKeepFirst ==
    CASE agg = "fetchAllIssuePages" ->
            IF cursor = ""
            THEN [currentOpts EXCEPT !.First = currentOpts.CursorPerPage, !.After = ""]
            ELSE [currentOpts EXCEPT !.After = cursor]
      [] agg = "fetchAllIssuePagesToken" ->
            [currentOpts EXCEPT !.PageToken = cursor]
      [] OTHER -> currentOpts

RequestOpts ==
    CASE agg = "fetchAllIssuePages" ->
            IF cursor = ""
            THEN [currentOpts EXCEPT !.First = currentOpts.CursorPerPage, !.After = ""]
            ELSE [currentOpts EXCEPT !.First = 0, !.After = cursor]
      [] agg = "fetchAllIssuePagesToken" ->
            [currentOpts EXCEPT !.PageToken = cursor]
      [] OTHER -> currentOpts

\* Whether the loop ends after a page of n items answered with response r,
\* per aggregator.
EndsAfterNoEmptyStop(a, k, r) ==
    CASE a = "fetchAllPullRequestPages" -> r.NextPage = 0
      [] a = "fetchAllRepoPages" -> r = Nil \/ r.NextPage = 0
      [] a = "FetchPullRequestsListPagesWithRetries" -> r.NextPage = 0
      [] a = "fetchAllIssuePages" -> r = Nil \/ r.After = ""
      [] OTHER -> r.NextPageToken = ""

EndsAfterIssuesStopOnEmpty(a, k, r) ==
    CASE a = "fetchAllPullRequestPages" -> k = 0 \/ r.NextPage = 0
      [] a = "fetchAllRepoPages" -> k = 0 \/ r = Nil \/ r.NextPage = 0
      [] a = "FetchPullRequestsListPagesWithRetries" -> r.NextPage = 0
      [] a = "fetchAllIssuePages" -> k = 0 \/ r = Nil \/ r.After = ""
      [] OTHER -> k = 0 \/ r.NextPageToken = ""

EndsAfter(a, k, r) ==
    CASE a = "fetchAllPullRequestPages" -> k = 0 \/ r.NextPage = 0
      [] a = "fetchAllRepoPages" -> k = 0 \/ r = Nil \/ r.NextPage = 0
      [] a = "FetchPullRequestsListPagesWithRetries" -> r.NextPage = 0
      [] a = "fetchAllIssuePages" -> r = Nil \/ r.After = ""
      [] OTHER -> k = 0 \/ r.NextPageToken = ""

\* What the aggregator returns when RetryGithubCall failed on a page.
FetchFailedReturnPartial(items, e) == AggReturn(items, e)

FetchFailedReturn(items, e) == AggReturn(Nil, e)

\* allPRs = append(allPRs, pagePRs...)
AppendPageInFront(all, items) == items \o all

AppendPage(all, items) == all \o items

\* One iteration of the aggregator's loop when RetryGithubCall returns r for
\* the request o: the new values of the aggregator's variables.
AfterPage(o, r) ==
    IF r.err # Nil
    THEN [ opts |-> o, cursor |-> cursor, all |-> allItems, pc |-> "done",
           ret |-> FetchFailedReturn(allItems, r.err), answered |-> FALSE ]
    ELSE IF r.data.kind # "page"
    THEN \* the type assertion fails
         IF agg \in { "fetchAllIssuePages", "fetchAllRepoPages" } /\ r.data = Nil
            /\ EndsAfter(agg, 1, r.resp)
         THEN [ opts |-> o, cursor |-> cursor, all |-> allItems, pc |-> "done",
                ret |-> AggReturn(allItems, Nil), answered |-> TRUE ]
         ELSE [ opts |-> o, cursor |-> cursor, all |-> allItems, pc |-> "done",
                ret |-> AggReturn(Nil, UnexpectedType(ListCallDesc(agg, o))),
                answered |-> TRUE ]
    ELSE LET items == r.data.items
             \* an empty page that ends the loop is not appended; appending
             \* nothing leaves the sequence as it is
             all == AppendPage(allItems, items)
         IN  IF EndsAfter(agg, Len(items), r.resp)
             THEN [ opts |-> o, cursor |-> cursor, all |-> all, pc |-> "done",
                    ret |-> AggReturn(all, Nil), answered |-> TRUE ]
             ELSE [ opts |-> IF agg \in OffsetAggs
                             THEN [o EXCEPT !.Page = r.resp.NextPage]
                             ELSE o,
                    cursor |-> IF agg = "fetchAllIssuePages" THEN r.resp.After
                               ELSE IF agg = "fetchAllIssuePagesToken"
                                    THEN r.resp.NextPageToken
                                    ELSE cursor,
                    all |-> all, pc |-> "loop", ret |-> NoRet, answered |-> TRUE ]

\* The loop body: one request through RetryGithubCall, answered out of
\* pages or failed.
AggFetch(pages) ==
    /\ apc = "loop"
    /\ \E outs \in CallOuts(ServerAnswers(pages)) :
         LET o == RequestOpts
             r == RetryGithubCall(ListCallDesc(agg, o), outs, ctxDone)
             a == AfterPage(o, r)
         IN  /\ currentOpts' = a.opts
             /\ cursor' = a.cursor
             /\ allItems' = a.all
             /\ apc' = a.pc
             /\ aggRet' = a.ret
             /\ reqs' = Append(reqs, o)
             /\ answers' = IF a.answered
                          THEN Append(answers, [data |-> r.data, resp |-> r.resp])
                          ELSE answers
    /\ UNCHANGED << entry, agg, listOpts >>

FetchPullRequestPage ==
    /\ agg = "fetchAllPullRequestPages"
    /\ AggFetch(Pages(Len(allItems)))

FetchRepoPage ==
    /\ agg = "fetchAllRepoPages"
    /\ AggFetch(Pages(Len(allItems)))

FetchPullRequestsListPage ==
    /\ agg = "FetchPullRequestsListPagesWithRetries"
    /\ AggFetch(Pages(Len(allItems)))

FetchIssuePage ==
    /\ agg = "fetchAllIssuePages"
    /\ AggFetch(Pages(Len(allItems)))

FetchIssuePageToken ==
    /\ agg = "fetchAllIssuePagesToken"
    /\ AggFetch(Pages(Len(allItems)))

\* The caller's context is cancelled between two requests.
AggCancelCtx ==
    /\ ~ctxDone
    /\ apc \in { "start", "loop" }
    /\ ctxDone' = TRUE
    /\ UNCHANGED aggVars

\* No RetryGithubCall is modelled step by step: each is one step of its
\* caller.
RetryIdle ==
    /\ callDesc = "none"
    /\ ctxDone = FALSE
    /\ rpc = "idle"
    /\ n = 0
    /\ data = Nil
    /\ ghResp = Nil
    /\ opError = Nil
    /\ errorLog = <<>>
    /\ retryErr = Nil
    /\ ret = NoRet
    /\ apiCalls = 0
    /\ warnings = 0
    /\ lastOut = NoOut

retryLocals == << callDesc, rpc, n, data, ghResp, opError, errorLog,
                  retryErr, ret, apiCalls, warnings,
                    lastOut >>

PagesInit ==
    /\ RetryIdle
    /\ PipeIdle
    /\ SumIdle
    /\ ChartIdle
    /\ RunIdle
    /\ agg \in OffsetAggs \cup CursorAggs
    /\ entry = agg
    /\ apc = "start"
    /\ listOpts \in CallerOpts(agg)
    /\ currentOpts = Nil
    /\ cursor = ""
    /\ allItems = <<>>
    /\ aggRet = NoRet
    /\ reqs = <<>>
    /\ answers = <<>>

PagesNext ==
    \/ AggStart /\ UNCHANGED << retryVars, pipeVars, sumVars, chartVars, runVars >>
    \/ FetchPullRequestPage /\ UNCHANGED << retryVars, pipeVars, sumVars, chartVars, runVars >>
    \/ FetchRepoPage /\ UNCHANGED << retryVars, pipeVars, sumVars, chartVars, runVars >>
    \/ FetchPullRequestsListPage /\ UNCHANGED << retryVars, pipeVars, sumVars, chartVars, runVars >>
    \/ FetchIssuePage /\ UNCHANGED << retryVars, pipeVars, sumVars, chartVars, runVars >>
    \/ FetchIssuePageToken /\ UNCHANGED << retryVars, pipeVars, sumVars, chartVars, runVars >>
    \/ AggCancelCtx /\ UNCHANGED << retryLocals, pipeVars, sumVars, chartVars, runVars >>

SpecPages == PagesInit /\ [][PagesNext]_vars


(***************************************************************************)
(* Properties of the page aggregators.                                     *)
(***************************************************************************)
RECURSIVE Concat(_)
\* The concatenation of the pages of a sequence of answers.
Concat(as) ==
    IF as = <<>> THEN <<>>
    ELSE Concat(SubSeq(as, 1, Len(as) - 1)) \o
         (IF as[Len(as)].data.kind = "page" THEN as[Len(as)].data.items ELSE <<>>)

PageLen(a) == IF a.data.kind = "page" THEN Len(a.data.items) ELSE 0

\* The answer carries a page of the expected type.
IsPage(a) == a.data.kind = "page"

AggDone == apc = "done"

AggFailed == AggDone /\ aggRet.err # Nil

(***************************************************************************)
(* C4: fetchAllPullRequestPages and fetchAllRepoPages send their first     *)
(* request for page 1, hold the concatenation of the pages answered so     *)
(* far, send every later request for the page number the previous response *)
(* signalled, and stop at the first answer that is an empty page or        *)
(* signals next page 0, and, short of a failure, only there.               *)
(***************************************************************************)
C4_OffsetAggregation ==
    agg \in { "fetchAllPullRequestPages", "fetchAllRepoPages" } =>
        /\ reqs # <<>> => reqs[1].Page = 1
        /\ allItems = Concat(answers)
        /\ \A k \in 2..Len(reqs) : reqs[k].Page = answers[k - 1].resp.NextPage
        /\ \A k \in 1..Len(answers) :
             IsPage(answers[k]) =>
                ((PageLen(answers[k]) = 0 \/ answers[k].resp.NextPage = 0)
                    <=> (AggDone /\ aggRet.err = Nil /\ k = Len(reqs)))
        /\ (AggDone /\ aggRet.err = Nil) => aggRet.items = allItems

\* fetchAllPullRequestPages went from page 1 to the page the server named,
\* which is not the following one, and stopped there on an empty page that
\* signalled a next page.
C4_Witness ==
    /\ agg = "fetchAllPullRequestPages"
    /\ AggDone
    /\ aggRet.err = Nil
    /\ Len(reqs) = 2
    /\ reqs[2].Page = 3
    /\ PageLen(answers[1]) = 2
    /\ PageLen(answers[2]) = 0
    /\ answers[2].resp.NextPage # 0
    /\ Len(aggRet.items) = 2

(***************************************************************************)
(* C29: when an aggregator returns without error, the sequence it returns  *)
(* is the concatenation of the pages it was answered with, in the order    *)
(* of the answers: the k-th item returned is the k-th item the server      *)
(* sent, none dropped, none twice, none out of place.  The same holds of   *)
(* what it has collected while it is still fetching.                       *)
(***************************************************************************)
C29_ConcatenationInOrder ==
    /\ apc = "loop" =>
           /\ allItems = Concat(answers)
           /\ Len(answers) = Len(reqs)
    /\ (AggDone /\ aggRet.err = Nil) =>
           /\ aggRet.items = Concat(answers)
           /\ Len(answers) = Len(reqs)
           /\ entry = agg =>
                  \A k \in DOMAIN aggRet.items : aggRet.items[k].num = k

\* fetchAllPullRequestPages and fetchAllIssuePages returned the three items
\* of two pages.
C29_Witness ==
    /\ agg \in { "fetchAllPullRequestPages", "fetchAllIssuePages" }
    /\ entry = agg
    /\ AggDone
    /\ aggRet.err = Nil
    /\ Len(answers) = 2
    /\ PageLen(answers[1]) = 2
    /\ PageLen(answers[2]) = 1
    /\ aggRet.items = << [num |-> 1], [num |-> 2], [num |-> 3] >>

PagePopulated(o) == o.Page # 0 \/ o.CursorPage # ""

\* The request carries a cursor field: After, First or a page token.
CursorPopulated(o) == o.After # "" \/ o.First # 0 \/ o.PageToken # ""

NextCursor(a) ==
    IF agg = "fetchAllIssuePages" THEN a.resp.After ELSE a.resp.NextPageToken

C3_CursorStopsOnlyOnEmptyCursor ==
    agg \in CursorAggs =>
        /\ \A k \in 1..Len(answers) :
             IsPage(answers[k]) =>
                ((NextCursor(answers[k]) = "")
                    <=> (AggDone /\ aggRet.err = Nil /\ k = Len(reqs)))
        /\ allItems = Concat(answers)

\* The same for the fetchAllIssuePages of src/pkg/repo/issue.go alone.
C3_AfterCursorStopsOnlyOnEmptyCursor ==
    agg = "fetchAllIssuePages" => C3_CursorStopsOnlyOnEmptyCursor

\* fetchAllIssuePages got an empty page with a next cursor, went on, and
\* returned the items of the page after it.
C3_Witness ==
    /\ agg = "fetchAllIssuePages"
    /\ AggDone
    /\ aggRet.err = Nil
    /\ Len(answers) = 2
    /\ PageLen(answers[1]) = 0
    /\ PageLen(answers[2]) = 2
    /\ Len(aggRet.items) = 2

(***************************************************************************)
(* C9: every request of an aggregation is one RetryGithubCall of its own,  *)
(* and when that call fails (its attempts exhausted, or the context        *)
(* cancelled) the aggregator returns the call's error, which names the     *)
(* failed request, and a nil sequence, whatever it had collected.          *)
(***************************************************************************)
C9_FailureDiscardsPages ==
    AggFailed /\ aggRet.err.kind = "wrapped" =>
        /\ aggRet.items = Nil
        /\ Len(answers) = Len(reqs) - 1
        /\ aggRet.err.desc = ListCallDesc(agg, reqs[Len(reqs)])
        /\ \/ aggRet.err.cause = CtxErr /\ ctxDone
           \/ /\ aggRet.err.cause.kind = "retry.Error"
              /\ Len(aggRet.err.cause.errs) = Attempts

\* The third request failed on all its attempts after two pages of items.
C9_Witness ==
    /\ AggFailed
    /\ ~ctxDone
    /\ Len(reqs) = 3
    /\ Len(allItems) = 4
    /\ aggRet.items = Nil
    /\ aggRet.err.kind = "wrapped"
    /\ aggRet.err.cause.kind = "retry.Error"

-----------------------------------------------------------------------------
\* The entity cache (persist.Cacher) and the helpers that read through it.

\* persist.Blob: one field per kind of cached entity.
BlobIssueFieldOnly(field, v) ==
    [ kind |-> "blob", GHPullRequest |-> Nil, GHIssue |-> v,
      GHCommitFiles |-> <<>>, GHPullRequestComments |-> <<>>,
      GHIssueComments |-> <<>>, GHReviews |-> <<>> ]

Blob(field, v) ==
    [ kind |-> "blob",
      GHPullRequest |-> IF field = "GHPullRequest" THEN v ELSE Nil,
      GHIssue |-> IF field = "GHIssue" THEN v ELSE Nil,
      GHCommitFiles |-> IF field = "GHCommitFiles" THEN v ELSE <<>>,
      GHPullRequestComments |-> IF field = "GHPullRequestComments" THEN v ELSE <<>>,
      GHIssueComments |-> IF field = "GHIssueComments" THEN v ELSE <<>>,
      GHReviews |-> IF field = "GHReviews" THEN v ELSE <<>> ]

\* p.Get(key, t): the entry under key, nil if there is none. Every t a
\* caller passes is a terminal timestamp of the past, to which no staleness
\* policy applies: an entry that is there is returned.
CacheGet(c, key, t) == IF key \in DOMAIN c THEN c[key] ELSE Nil

SetError == [kind |-> "cache write error"]

\* p.Set(key, blob): the entry is stored, or the write fails and the cache
\* is left as it was.
CacheSetEvictsOnRewrite(c, key, blob, ok) ==
    IF ok
    THEN [ cache |-> IF key \in DOMAIN c
                     THEN [k \in DOMAIN c \ {key} |-> c[k]]
                     ELSE [k \in DOMAIN c \cup {key} |->
                              IF k = key THEN blob ELSE c[k]],
           err |-> Nil ]
    ELSE [ cache |-> c, err |-> SetError ]

CacheSetDropOthers(c, key, blob, ok) ==
    IF ok
    THEN [ cache |-> [k \in {key} |-> blob], err |-> Nil ]
    ELSE [ cache |-> c, err |-> SetError ]

CacheSet(c, key, blob, ok) ==
    IF ok
    THEN [ cache |-> [k \in DOMAIN c \cup {key} |-> IF k = key THEN blob ELSE c[k]],
           err |-> Nil ]
    ELSE [ cache |-> c, err |-> SetError ]

\* fmt.Sprintf("pr-%s-%s-%d", org, project, num)
PRKey(o, p, num) ==
    << "p", "r", "-" >> \o o \o << "-" >> \o p \o << "-" >> \o Itoa(num)

\* fmt.Sprintf("issue-%s-%s-%d", org, project, num)
IssueKey(o, p, num) ==
    << "i", "s", "s", "u", "e", "-" >> \o o \o << "-" >> \o p \o << "-" >> \o Itoa(num)

\* fmt.Sprintf("PullRequests.Get %s/%s#%d", org, project, num)
GetCallDesc(call, o, p, num) == [call |-> call, org |-> o, project |-> p, num |-> num]

\* What a helper did and returned: the value, the error, the cache after
\* the call, and whether it read the entry from the cache, called the
\* remote API, wrote to the cache; asOf is the time it passed to p.Get.
Got(v, e, c, hit, called, set) ==
    [ val |-> v, err |-> e, cache |-> c, hit |-> hit, called |-> called,
      set |-> set, asOf |-> ZeroTime ]

\* A helper that never reads the cache.
GetThroughAlwaysFetch(c, key, t, field, kind, desc, outs, setOk, cancelled) ==
    LET r == RetryGithubCall(desc, outs, cancelled) IN
    IF r.err # Nil
    THEN Got(Nil, r.err, c, FALSE, TRUE, "none")
    ELSE LET s == CacheSet(c, key, Blob(field, r.data), setOk)
         IN  Got(r.data, s.err, s.cache, FALSE, TRUE,
                 IF setOk THEN "ok" ELSE "failed")

\* A helper that writes to the cache before it asserts the type.
GetThroughSetBeforeAssert(c, key, t, field, kind, desc, outs, setOk, cancelled) ==
    LET val == CacheGet(c, key, t)
        g == IF val # Nil
             THEN Got(val[field], Nil, c, TRUE, FALSE, "none")
             ELSE LET r == RetryGithubCall(desc, outs, cancelled) IN
                  IF r.err # Nil
                  THEN Got(Nil, r.err, c, FALSE, TRUE, "none")
                  ELSE LET s == CacheSet(c, key, Blob(field, r.data), setOk) IN
                       IF r.data.kind # kind
                       THEN Got(Nil, UnexpectedType(desc), s.cache, FALSE, TRUE,
                                IF setOk THEN "ok" ELSE "failed")
                       ELSE Got(r.data, s.err, s.cache, FALSE, TRUE,
                                IF setOk THEN "ok" ELSE "failed")
    IN  [g EXCEPT !.asOf = t]

\* The body PullRequestsGet and IssuesGet share: the cached entry if there
\* is one, else the answer of the remote call, written to the cache.
GetThrough(c, key, t, field, kind, desc, outs, setOk, cancelled) ==
    LET val == CacheGet(c, key, t)
        g == IF val # Nil
             THEN Got(val[field], Nil, c, TRUE, FALSE, "none")
             ELSE LET r == RetryGithubCall(desc, outs, cancelled) IN
                  IF r.err # Nil
                  THEN Got(Nil, r.err, c, FALSE, TRUE, "none")
                  ELSE IF r.data.kind # kind
                  THEN Got(Nil, UnexpectedType(desc), c, FALSE, TRUE, "none")
                  ELSE LET s == CacheSet(c, key, Blob(field, r.data), setOk)
                       IN  Got(r.data, s.err, s.cache, FALSE, TRUE,
                               IF setOk THEN "ok" ELSE "failed")
    IN  [g EXCEPT !.asOf = t]

PullRequestsGet(c, t, o, p, num, outs, setOk, cancelled) ==
    GetThrough(c, PRKey(o, p, num), t, "GHPullRequest", "pr",
               GetCallDesc("PullRequests.Get", o, p, num), outs, setOk, cancelled)

IssuesGet(c, t, o, p, num, outs, setOk, cancelled) ==
    GetThrough(c, IssueKey(o, p, num), t, "GHIssue", "issue",
               GetCallDesc("Issues.Get", o, p, num), outs, setOk, cancelled)

\* The successful answers of a detail call.
DetailAnswers(details) == { [data |-> d, resp |-> Resp(1)] : d \in details }

-----------------------------------------------------------------------------
\* The pipelines MergedPulls, issues / ClosedIssues and ListRepoNames.

\* fmt.Errorf("failed to fetch ... list for ...: %w", ..., err)
ListingFailed(what, cause) ==
    [kind |-> "wrapped", msg |-> "failed to fetch", what |-> what, cause |-> cause]

PipeReturn(res, e) == [kind |-> "return", result |-> res, err |-> e]

\* matchUser: users, lower-cased
matchUser == { ToLower(users[i]) : i \in DOMAIN users }

\* matchBranch: branches, lower-cased
matchBranch == { ToLower(branches[i]) : i \in DOMAIN branches }

\* The early exit of the range loops.
EarlyExitNever(item) == FALSE

EarlyExitInclusive(item) == item.UpdatedAt <= since

EarlyExit(item) == Before(item.UpdatedAt, since)

\* A timestamp passes the window check: it is set, not after until and not
\* before since.
InWindowExclusive(t) == ~IsZero(t) /\ t < until /\ ~Before(t, since)

InWindowNoUpper(t) == ~IsZero(t) /\ ~Before(t, since)

InWindow(t) == ~IsZero(t) /\ ~After(t, until) /\ ~Before(t, since)

\* What the caller does with the list its aggregator returned: return at
\* once (pc "done") or range over the list (pc "filter").
AfterListingIgnoreError(what, r, empty) ==
    IF r.err # Nil \/ Len(r.items) = 0
    THEN [pc |-> "done", ret |-> PipeReturn(empty, Nil), list |-> <<>>]
    ELSE [pc |-> "filter", ret |-> NoRet, list |-> r.items]

AfterListing(what, r, empty) ==
    IF r.err # Nil
    THEN [pc |-> "done", ret |-> PipeReturn(Nil, ListingFailed(what, r.err)),
          list |-> <<>>]
    ELSE IF Len(r.items) = 0
    THEN [pc |-> "done", ret |-> PipeReturn(empty, Nil), list |-> <<>>]
    ELSE [pc |-> "filter", ret |-> NoRet, list |-> r.items]

\* The aggregator has returned to its caller: its locals are gone.
AggReturned ==
    /\ apc = "done"
    /\ apc' = "idle"
    /\ currentOpts' = Nil
    /\ cursor' = ""
    /\ allItems' = <<>>
    /\ reqs' = <<>>
    /\ answers' = <<>>
    /\ UNCHANGED << entry, agg, listOpts, aggRet >>

\* What one iteration of a range loop did: the position and number of the
\* candidate, the verdict, and what its call to the helper, if it made
\* one, did and returned.
Op(i, num, verdict, g) ==
    [ kind |-> "op", idx |-> i, num |-> num, verdict |-> verdict, hit |-> g.hit,
      called |-> g.called, set |-> g.set, val |-> g.val, err |-> g.err,
      asOf |-> g.asOf ]

\* An iteration that made no call to a helper.
NoGet(c) == Got(Nil, Nil, c, FALSE, FALSE, "none")

Verdict(v, full, g) == [verdict |-> v, full |-> full, got |-> g]

\* The helper returned an error g.err: the loop goes on with the next
\* candidate.
DetailFailedBreak(g) == Verdict("break", Nil, g)

DetailFailed(g) == Verdict("skip", Nil, g)

\* cacheTime of MergedPulls
PullCacheTimeClosedFirst(pr) ==
    IF ~IsZero(pr.ClosedAt) THEN pr.ClosedAt
    ELSE IF ~IsZero(pr.MergedAt) THEN pr.MergedAt
    ELSE pr.UpdatedAt

PullCacheTime(pr) ==
    IF ~IsZero(pr.MergedAt) THEN pr.MergedAt
    ELSE IF ~IsZero(pr.ClosedAt) THEN pr.ClosedAt
    ELSE pr.UpdatedAt

\* Filter 4 of MergedPulls: the author of the listed pull request is a bot.
BotFilterUnlessAllowed(pr) ==
    isBot(pr.User) /\ ToLower(GetLogin(pr.User)) \notin matchUser

BotFilter(pr) == isBot(pr.User)

\* Filter 7 of MergedPulls: the detail record is not merged.
NotMergedIgnoreSHA(fullPR) == ~GetMerged(fullPR)

NotMerged(fullPR) == ~GetMerged(fullPR) \/ GetMergeCommitSHA(fullPR) = ""

\* The body of the range loop of MergedPulls for the candidate pr.
MergedPullsBody(pr, c, outs, setOk, cancelled) ==
    IF EarlyExit(pr) THEN Verdict("break", Nil, NoGet(c))
    ELSE IF ~InWindow(pr.ClosedAt) THEN Verdict("skip", Nil, NoGet(c))
    ELSE IF Len(users) > 0 /\ ToLower(GetLogin(pr.User)) \notin matchUser
    THEN Verdict("skip", Nil, NoGet(c))
    ELSE IF BotFilter(pr) THEN Verdict("skip", Nil, NoGet(c))
    ELSE IF pr.State # "closed" THEN Verdict("skip", Nil, NoGet(c))
    ELSE LET g == PullRequestsGet(c, PullCacheTime(pr), org, project, pr.Number,
                                  outs, setOk, cancelled)
             fullPR == g.val
         IN  IF g.err # Nil THEN DetailFailed(g)
             ELSE IF Len(branches) > 0 /\ GetBaseRef(fullPR) \notin matchBranch
             THEN Verdict("skip", Nil, g)
             ELSE IF NotMerged(fullPR) THEN Verdict("skip", Nil, g)
             ELSE IF ~InWindow(GetMergedAt(fullPR)) THEN Verdict("skip", Nil, g)
             ELSE Verdict("include", fullPR, g)

\* issueDate
issueDate(i) ==
    IF ~IsZero(i.ClosedAt) THEN i.ClosedAt
    ELSE IF ~IsZero(i.UpdatedAt) THEN i.UpdatedAt
    ELSE i.CreatedAt

\* matchesUserFilter of issues, for the detail record full.
matchesUserFilter(full) ==
    \/ Len(users) = 0
    \/ ToLower(GetLogin(GetUser(full))) \in matchUser
    \/ /\ GetClosedBy(full) # Nil
       /\ GetLogin(GetClosedBy(full)) # <<>>
       /\ ToLower(GetLogin(GetClosedBy(full))) \in matchUser

\* i.IsPullRequest(): the kind rule of issues skips the item on it.
IsPullRequestNever(i) == FALSE

IsPullRequest(i) == i.IsPR

\* The body of the range loop of issues for the candidate i.
IssuesBodyGetBeforeWindow(i, c, outs, setOk, cancelled) ==
    IF IsPullRequest(i) THEN Verdict("skip", Nil, NoGet(c))
    ELSE IF EarlyExit(i) THEN Verdict("break", Nil, NoGet(c))
    ELSE LET g == IssuesGet(c, issueDate(i), org, project, i.Number,
                            outs, setOk, cancelled)
             full == g.val
         IN  IF g.err # Nil THEN DetailFailed(g)
             ELSE IF state = "closed" /\ ~InWindow(i.ClosedAt)
             THEN Verdict("skip", Nil, g)
             ELSE IF state # "" /\ i.State # state THEN Verdict("skip", Nil, g)
             ELSE IF ~matchesUserFilter(full) THEN Verdict("skip", Nil, g)
             ELSE Verdict("include", full, g)

IssuesBody(i, c, outs, setOk, cancelled) ==
    IF IsPullRequest(i) THEN Verdict("skip", Nil, NoGet(c))
    ELSE IF EarlyExit(i) THEN Verdict("break", Nil, NoGet(c))
    ELSE IF state = "closed" /\ ~InWindow(i.ClosedAt)
    THEN Verdict("skip", Nil, NoGet(c))
    ELSE IF state # "" /\ i.State # state THEN Verdict("skip", Nil, NoGet(c))
    ELSE LET g == IssuesGet(c, issueDate(i), org, project, i.Number,
                            outs, setOk, cancelled)
             full == g.val
         IN  IF g.err # Nil THEN DetailFailed(g)
             ELSE IF ~matchesUserFilter(full) THEN Verdict("skip", Nil, g)
             ELSE Verdict("include", full, g)

\* One iteration of a range loop whose body gave verdict v.
LoopStepPrepend(v) ==
    /\ result' = IF v.verdict = "include" THEN << v.full >> \o result ELSE result
    /\ cache' = v.got.cache
    /\ lastOp' = Op(idx, fetched[idx].Number, v.verdict, v.got)
    /\ idx' = idx + 1
    /\ ppc' = IF v.verdict = "break" \/ idx = Len(fetched) THEN "loopdone"
              ELSE "filter"
    /\ UNCHANGED << since, until, users, branches, fetched, pipeRet >>

LoopStep(v) ==
    /\ result' = IF v.verdict = "include" THEN Append(result, v.full) ELSE result
    /\ cache' = v.got.cache
    /\ lastOp' = Op(idx, fetched[idx].Number, v.verdict, v.got)
    /\ idx' = idx + 1
    /\ ppc' = IF v.verdict = "break" \/ idx = Len(fetched) THEN "loopdone"
              ELSE "filter"
    /\ UNCHANGED << since, until, users, branches, fetched, pipeRet >>

\* MergedPulls, from the return of fetchAllPullRequestPages to the loop.
MergedPullsListed ==
    /\ entry = "MergedPulls"
    /\ ppc = "list"
    /\ AggReturned
    /\ LET l == AfterListing("pull request", aggRet, <<>>) IN
         /\ ppc' = l.pc
         /\ pipeRet' = l.ret
         /\ fetched' = l.list
    /\ result' = <<>>
    /\ idx' = 1
    /\ UNCHANGED << since, until, users, branches, cache, lastOp >>

MergedPullsStep ==
    /\ entry = "MergedPulls"
    /\ ppc = "filter"
    /\ \E outs \in CallOuts(DetailAnswers(PullDetails(fetched[idx]))),
          setOk \in BOOLEAN :
         LoopStep(MergedPullsBody(fetched[idx], cache, outs, setOk, ctxDone))

MergedPullsReturn ==
    /\ entry = "MergedPulls"
    /\ ppc = "loopdone"
    /\ pipeRet' = PipeReturn(result, Nil)
    /\ ppc' = "done"
    /\ UNCHANGED << since, until, users, branches, fetched, idx, result, cache,
                    lastOp >>

\* issues, from the return of fetchAllIssuePages to the loop.
IssuesListed ==
    /\ entry = "ClosedIssues"
    /\ ppc = "list"
    /\ AggReturned
    /\ LET l == AfterListing("issue", aggRet, <<>>) IN
         /\ ppc' = IF l.pc = "done" THEN "returned" ELSE l.pc
         /\ pipeRet' = l.ret
         /\ fetched' = l.list
    /\ result' = <<>>
    /\ idx' = 1
    /\ UNCHANGED << since, until, users, branches, cache, lastOp >>

IssuesStep ==
    /\ entry = "ClosedIssues"
    /\ ppc = "filter"
    /\ \E outs \in CallOuts(DetailAnswers(IssueDetails(fetched[idx]))),
          setOk \in BOOLEAN :
         LoopStep(IssuesBody(fetched[idx], cache, outs, setOk, ctxDone))

IssuesReturn ==
    /\ entry = "ClosedIssues"
    /\ ppc = "loopdone"
    /\ pipeRet' = PipeReturn(result, Nil)
    /\ ppc' = "returned"
    /\ UNCHANGED << since, until, users, branches, fetched, idx, result, cache,
                    lastOp >>

\* time.Format(dateForm) of an instant; instants are whole days.
FormatDate(t) == IF IsZero(t) THEN << "0001-01-01" >> ELSE << "day", t >>

IssueSummary(i) ==
    [ URL |-> << "issues", i.Number >>, Date |-> FormatDate(GetClosedAt(i)),
      Author |-> GetLogin(GetUser(i)), Closer |-> GetLogin(GetClosedBy(i)),
      Project |-> project ]

\* ClosedIssues, from the return of issues.
ClosedIssuesReturn ==
    /\ entry = "ClosedIssues"
    /\ ppc = "returned"
    /\ pipeRet' = IF pipeRet.err # Nil THEN PipeReturn(Nil, pipeRet.err)
                  ELSE PipeReturn([k \in DOMAIN pipeRet.result |->
                                      IssueSummary(pipeRet.result[k])], Nil)
    /\ ppc' = "done"
    /\ UNCHANGED << since, until, users, branches, fetched, idx, result, cache,
                    lastOp >>

\* ListRepoNames, from the return of fetchAllRepoPages.
ReposListed ==
    /\ entry = "ListRepoNames"
    /\ ppc = "list"
    /\ AggReturned
    /\ LET l == AfterListing("repository", aggRet, <<>>) IN
         /\ ppc' = "done"
         /\ fetched' = l.list
         /\ pipeRet' = IF l.pc = "done" THEN l.ret
                       ELSE PipeReturn([k \in DOMAIN l.list |->
                                           org \o << "/" >> \o l.list[k].Name], Nil)
    /\ UNCHANGED << since, until, users, branches, idx, result, cache, lastOp >>

\* The caller's context is cancelled, before the listing or while a range
\* loop runs.
PipeCancelCtx ==
    /\ ~ctxDone
    /\ apc = "start" \/ ppc = "filter"
    /\ ctxDone' = TRUE
    /\ UNCHANGED << aggVars, pipeVars >>

\* The aggregator each pipeline lists with.
AggOf(e) ==
    CASE e = "MergedPulls" -> "fetchAllPullRequestPages"
      [] e = "ClosedIssues" -> "fetchAllIssuePages"
      [] OTHER -> "fetchAllRepoPages"

\* The cache a run can start with: empty, or holding the first entity from
\* an earlier run.
InitCaches(e) ==
    CASE e = "MergedPulls" ->
            { EmptyCache,
              CacheSet(EmptyCache, PRKey(org, project, 1),
                       Blob("GHPullRequest",
                            PullRequest(1, MaxTime - 1, MaxTime - 1, MaxTime - 1,
                                        User(Alice), "closed", Main, TRUE, "sha")),
                       TRUE).cache }
      [] e = "ClosedIssues" ->
            { EmptyCache,
              CacheSet(EmptyCache, IssueKey(org, project, 1),
                       Blob("GHIssue",
                            Issue(1, FALSE, MaxTime - 1, MaxTime - 1, 1, "closed",
                                  User(Alice), User(Bob))),
                       TRUE).cache }
      [] OTHER -> { EmptyCache }

PipeInit ==
    /\ RetryIdle
    /\ SumIdle
    /\ ChartIdle
    /\ RunIdle
    /\ entry \in { "MergedPulls", "ClosedIssues", "ListRepoNames" }
    /\ agg = AggOf(entry)
    /\ apc = "start"
    /\ listOpts = ListOptsOf(agg)
    /\ currentOpts = Nil
    /\ cursor = ""
    /\ allItems = <<>>
    /\ aggRet = NoRet
    /\ reqs = <<>>
    /\ answers = <<>>
    /\ since \in 2..(MaxTime - 1)
    /\ until \in since..MaxTime
    /\ users = <<>>
    /\ branches = <<>>
    /\ ppc = "list"
    /\ fetched = <<>>
    /\ idx = 0
    /\ result = <<>>
    /\ pipeRet = NoRet
    /\ cache \in InitCaches(entry)
    /\ lastOp = NoOp

PipeNext ==
    \/ AggStart /\ UNCHANGED << retryVars, pipeVars, sumVars, chartVars, runVars >>
    \/ FetchPullRequestPage /\ UNCHANGED << retryVars, pipeVars, sumVars, chartVars, runVars >>
    \/ FetchRepoPage /\ UNCHANGED << retryVars, pipeVars, sumVars, chartVars, runVars >>
    \/ FetchIssuePage /\ UNCHANGED << retryVars, pipeVars, sumVars, chartVars, runVars >>
    \/ MergedPullsListed /\ UNCHANGED << retryVars, sumVars, chartVars, runVars >>
    \/ MergedPullsStep /\ UNCHANGED << retryVars, aggVars, sumVars, chartVars, runVars >>
    \/ MergedPullsReturn /\ UNCHANGED << retryVars, aggVars, sumVars, chartVars, runVars >>
    \/ IssuesListed /\ UNCHANGED << retryVars, sumVars, chartVars, runVars >>
    \/ IssuesStep /\ UNCHANGED << retryVars, aggVars, sumVars, chartVars, runVars >>
    \/ IssuesReturn /\ UNCHANGED << retryVars, aggVars, sumVars, chartVars, runVars >>
    \/ ClosedIssuesReturn /\ UNCHANGED << retryVars, aggVars, sumVars, chartVars, runVars >>
    \/ ReposListed /\ UNCHANGED << retryVars, sumVars, chartVars, runVars >>
    \/ PipeCancelCtx /\ UNCHANGED << retryLocals, sumVars, chartVars, runVars >>

SpecPipe == PipeInit /\ [][PipeNext]_vars

-----------------------------------------------------------------------------
\* PullRequestsGet and IssuesGet called on their own, again and again, on
\* one cache.

\* What a call to a helper did and returned.
Get(helper, key, t, g) ==
    [ kind |-> "get", helper |-> helper, key |-> key, t |-> t, hit |-> g.hit,
      called |-> g.called, set |-> g.set, val |-> g.val, err |-> g.err ]

\* The records the remote API can answer a detail call with: the entity
\* num, closed at the first or at the last instant.
RemotePulls(num) ==
    { PullRequest(num, t, t, t, User(Alice), "closed", Main, TRUE, "sha") :
        t \in {1, MaxTime} }

RemoteIssues(num) ==
    { Issue(num, FALSE, t, t, 1, "closed", User(Alice), User(Bob)) :
        t \in {1, MaxTime} }

\* The numbers of the entities the helpers are called for.
HelperNums == {1, MaxItems}

HelperCalled(helper, key, t, g) ==
    /\ cache' = g.cache
    /\ lastOp' = Get(helper, key, t, g)
    /\ UNCHANGED << since, until, users, branches, ppc, fetched, idx, result,
                    pipeRet >>

CallPullRequestsGet ==
    \E num \in HelperNums, t \in Times, setOk \in BOOLEAN :
      \E outs \in CallOuts(DetailAnswers(RemotePulls(num) \cup OddPayloads)) :
         HelperCalled("PullRequestsGet", PRKey(org, project, num), t,
                      PullRequestsGet(cache, t, org, project, num, outs, setOk,
                                      ctxDone))

CallIssuesGet ==
    \E num \in HelperNums, t \in Times, setOk \in BOOLEAN :
      \E outs \in CallOuts(DetailAnswers(RemoteIssues(num) \cup OddPayloads)) :
         HelperCalled("IssuesGet", IssueKey(org, project, num), t,
                      IssuesGet(cache, t, org, project, num, outs, setOk,
                                ctxDone))

CacheInit ==
    /\ RetryIdle
    /\ AggIdle
    /\ PipeIdle
    /\ SumIdle
    /\ ChartIdle
    /\ RunIdle

CacheNext ==
    \/ CallPullRequestsGet /\ UNCHANGED << retryVars, aggVars, sumVars, chartVars, runVars >>
    \/ CallIssuesGet /\ UNCHANGED << retryVars, aggVars, sumVars, chartVars, runVars >>

SpecCache == CacheInit /\ [][CacheNext]_vars


(***************************************************************************)
(* Properties of the pipelines.                                            *)
(***************************************************************************)
Filtering == entry \in { "MergedPulls", "ClosedIssues" }

\* The range loop has run an iteration.
Stepped == Filtering /\ lastOp.kind = "op"

\* The candidate of the last iteration.
LastItem == fetched[lastOp.idx]

StrictlyDescending(l) ==
    \A i \in 1..(Len(l) - 1) : l[i].UpdatedAt > l[i + 1].UpdatedAt

\* The numbers of the entities collected so far, and of those returned.
ResultNumbers == { GetNumber(result[k]) : k \in DOMAIN result }

ReturnedNumbers ==
    IF ppc # "done" \/ pipeRet.err # Nil THEN {}
    ELSE IF entry = "MergedPulls"
    THEN { GetNumber(pipeRet.result[k]) : k \in DOMAIN pipeRet.result }
    ELSE { pipeRet.result[k].URL[2] : k \in DOMAIN pipeRet.result }

PullDetailInHand ==
    /\ entry = "MergedPulls"
    /\ Stepped
    /\ lastOp.hit \/ lastOp.called
    /\ lastOp.val # Nil

\* The filters of MergedPulls other than the two window checks pass for the
\* candidate and its detail record.
OtherPullFiltersPass ==
    /\ LastItem.UpdatedAt >= since
    /\ Len(users) = 0 \/ ToLower(GetLogin(LastItem.User)) \in matchUser
    /\ ~isBot(LastItem.User)
    /\ LastItem.State = "closed"
    /\ Len(branches) = 0 \/ lastOp.val.BaseRef \in matchBranch
    /\ lastOp.val.Merged
    /\ lastOp.val.MergeCommitSHA # ""

Inside(t) == t # ZeroTime /\ since <= t /\ t <= until

\* C2: MergedPulls collects no pull request whose closedAt (in the listing)
\* or mergedAt (in the detail record) lies outside [since, until], and
\* collects every pull request whose two timestamps lie inside, endpoints
\* included, when the other filters pass on its detail record.
C2_WindowInclusive ==
    /\ (entry = "MergedPulls" /\ Stepped /\ lastOp.verdict = "include") =>
           Inside(LastItem.ClosedAt) /\ Inside(lastOp.val.MergedAt)
    /\ ( /\ PullDetailInHand
         /\ OtherPullFiltersPass
         /\ Inside(LastItem.ClosedAt)
         /\ Inside(lastOp.val.MergedAt) ) =>
           /\ lastOp.verdict = "include"
           /\ result[Len(result)] = lastOp.val

\* The same, for the iterations whose cache write did not fail.
C2_WindowInclusiveWhenStored ==
    /\ (entry = "MergedPulls" /\ Stepped /\ lastOp.verdict = "include") =>
           Inside(LastItem.ClosedAt) /\ Inside(lastOp.val.MergedAt)
    /\ ( /\ PullDetailInHand
         /\ lastOp.set # "failed"
         /\ OtherPullFiltersPass
         /\ Inside(LastItem.ClosedAt)
         /\ Inside(lastOp.val.MergedAt) ) =>
           /\ lastOp.verdict = "include"
           /\ result[Len(result)] = lastOp.val

\* A pull request closed at since and merged at until, later than since,
\* was collected.
C2_Witness ==
    /\ entry = "MergedPulls"
    /\ since < until
    /\ Stepped
    /\ lastOp.verdict = "include"
    /\ lastOp.called
    /\ LastItem.ClosedAt = since
    /\ lastOp.val.MergedAt = until

\* The detail record of the last iteration passes the filters its loop
\* applies to a detail record.
DetailPasses ==
    IF entry = "MergedPulls"
    THEN /\ Len(branches) = 0 \/ lastOp.val.BaseRef \in matchBranch
         /\ lastOp.val.Merged
         /\ lastOp.val.MergeCommitSHA # ""
         /\ Inside(lastOp.val.MergedAt)
    ELSE \/ Len(users) = 0
         \/ ToLower(GetLogin(lastOp.val.User)) \in matchUser
         \/ ToLower(GetLogin(lastOp.val.ClosedBy)) \in matchUser

\* The helper of the last iteration fetched the record but could not write
\* it to the cache.
FetchedNotStored == Stepped /\ lastOp.called /\ lastOp.set = "failed"

\* C6: a detail record that was fetched from the remote API while the cache
\* write failed is used in the run: the candidate is collected if and only
\* if the record passes the filters.
C6_FetchedRecordUsed ==
    FetchedNotStored =>
        /\ lastOp.val # Nil
        /\ lastOp.verdict = IF DetailPasses THEN "include" ELSE "skip"
        /\ DetailPasses => result[Len(result)] = lastOp.val

\* The helper of the last iteration called the remote API and got no record.
FetchFailed(op) == op.kind = "op" /\ op.called /\ op.val = Nil /\ op.err # Nil

\* C7: in MergedPulls and issues an iteration whose detail fetch fails
\* leaves the result and the cache as they were and goes on with the next
\* candidate, as if its candidate were not listed; a call whose listing
\* succeeded returns no error.
C7_DetailFailureSkipsOne ==
    /\ [](( Filtering /\ ppc \in { "returned", "done" } /\ aggRet.err = Nil) =>
              pipeRet.err = Nil)
    /\ [][ (Filtering /\ ppc = "filter" /\ idx' = idx + 1 /\ FetchFailed(lastOp')) =>
              /\ lastOp'.idx = idx
              /\ lastOp'.verdict = "skip"
              /\ result' = result
              /\ cache' = cache
              /\ fetched' = fetched
              /\ ppc' = IF idx = Len(fetched) THEN "loopdone" ELSE "filter" ]_vars

\* The detail fetch of the first of two candidates failed and the loop is at
\* the second.
C7_Witness ==
    /\ Filtering
    /\ FetchFailed(lastOp)
    /\ lastOp.idx = 1
    /\ Len(fetched) = 2
    /\ idx = 2
    /\ ppc = "filter"

\* The listing of the running pipeline failed and the pipeline is past it.
ListingHasFailed == ppc # "list" /\ aggRet.kind = "return" /\ aggRet.err # Nil

\* C8: when the listing fails, MergedPulls, issues / ClosedIssues and
\* ListRepoNames return the listing's error, wrapped, and no result, without
\* running an iteration of the loop: no helper is called and the cache is
\* as it was at the start.
C8_ListingFailureIsFatal ==
    ListingHasFailed =>
        /\ ppc \in { "returned", "done" }
        /\ pipeRet.kind = "return"
        /\ pipeRet.result = Nil
        /\ pipeRet.err = ListingFailed(pipeRet.err.what, aggRet.err)
        /\ lastOp = NoOp
        /\ cache \in InitCaches(entry)

\* MergedPulls returned after the fetch of page 2 of its listing had failed.
C8_Witness ==
    /\ entry = "MergedPulls"
    /\ ppc = "done"
    /\ ListingHasFailed
    /\ aggRet.err.kind = "wrapped"
    /\ aggRet.err.desc.page = 2

\* The field of a blob a helper reads and writes.
FieldOf(helper) == IF helper = "PullRequestsGet" THEN "GHPullRequest" ELSE "GHIssue"

\* A helper is called in this step.
HelperStep == lastOp' # lastOp /\ lastOp'.kind = "get"

\* C5: a call of PullRequestsGet / IssuesGet that misses the cache, fetches
\* and writes leaves the fetched record in the cache under the key of its
\* org, project and number, nothing else writes the cache, and a call with
\* a key that is in the cache, whatever its asOfTime, returns the record of
\* that entry without a remote call and leaves the cache as it is.
C5_CachedEntryIsReturned ==
    [][ HelperStep =>
          LET key == lastOp'.key
              field == FieldOf(lastOp'.helper)
          IN  /\ key \in DOMAIN cache =>
                    /\ lastOp'.hit
                    /\ ~lastOp'.called
                    /\ lastOp'.val = cache[key][field]
                    /\ lastOp'.err = Nil
                    /\ cache' = cache
              /\ (key \notin DOMAIN cache /\ lastOp'.set = "ok") =>
                    /\ lastOp'.called
                    /\ DOMAIN cache' = DOMAIN cache \cup {key}
                    /\ cache'[key][field] = lastOp'.val
                    /\ \A k \in DOMAIN cache : cache'[k] = cache[k]
              /\ lastOp'.set # "ok" => cache' = cache ]_vars

\* PullRequestsGet was called at the latest instant for a pull request that
\* is in the cache; the remote record of that pull request at that instant
\* is another one.
C5_Witness ==
    /\ lastOp.kind = "get"
    /\ lastOp.helper = "PullRequestsGet"
    /\ lastOp.hit
    /\ lastOp.t = MaxTime
    /\ lastOp.val.MergedAt < MaxTime
    /\ lastOp.val = cache[lastOp.key].GHPullRequest

\* The last attempt of apiCallFunc succeeded.
Succeeded == apiCalls > 0 /\ lastOut.err = Nil

(***************************************************************************)
(* C11: when an attempt of apiCallFunc succeeds, retry.Do stops: no        *)
(* further attempt is made, nothing the attempt stored is changed, and     *)
(* RetryGithubCall returns the payload and the response of that attempt    *)
(* with a nil error, whatever earlier failed attempts had answered; and a  *)
(* nil error is returned only after a successful attempt.                  *)
(***************************************************************************)
C11_SuccessIsReturned ==
    /\ [](Succeeded =>
            /\ rpc \in {"return", "done"}
            /\ retryErr = Nil
            /\ apiCalls = n + 1
            /\ Len(errorLog) = n
            /\ rpc = "done" => ret = Returned(lastOut.data, lastOut.resp, Nil))
    /\ [](rpc = "done" /\ ret.err = Nil => Succeeded)
    /\ [][Succeeded => apiCalls' = apiCalls /\ lastOut' = lastOut]_vars

\* The second attempt succeeded with a payload and no response metadata.
C11_Witness ==
    /\ rpc = "done"
    /\ Succeeded
    /\ apiCalls = 2
    /\ Len(errorLog) = 1
    /\ ret = Returned(Payload(1), Nil, Nil)

C13_Terminates ==
    /\ <>(rpc = "done")
    /\ [](apiCalls <= Attempts /\ n < Attempts)
    /\ [](apiCalls = Attempts => rpc \in {"return", "done"})
    /\ [](rpc = "done" /\ ~Succeeded /\ ~ctxDone => apiCalls = Attempts)

\* Every attempt failed, the context was never cancelled, the call returned.
C13_Witness ==
    /\ rpc = "done"
    /\ ~ctxDone
    /\ ~Succeeded
    /\ apiCalls = Attempts
    /\ warnings = Attempts
    /\ ret.err # Nil

-----------------------------------------------------------------------------
(***************************************************************************)
(* PullSummary: one summary per pull request of the prs map.  A Go map     *)
(* keyed by pointer is ranged over in an unspecified order: prs is the     *)
(* sequence of the map's entries in the order the range loop visits them.  *)
(* Project (ParseURL), Type (prType) and Description (the body without its *)
(* comments, cut at 240 bytes) are left out; they do not act on the fields *)
(* kept here.                                                              *)
(***************************************************************************)
MaxBatch == 2

MaxFiles == 2

\* The additions a file that matches truncRe is counted with at most.
TruncTo == 10

\* A path is the sequence of its characters.
ChangelogUpper == << "C", "H", "A", "N", "G", "E", "L", "O", "G", ".", "m", "d" >>

ChangelogMixed == << "C", "h", "a", "n", "g", "e", "l", "o", "g", ".", "m", "d" >>

GopkgToml == << "G", "o", "p", "k", "g", ".", "t", "o", "m", "l" >>

MainGo == << "m", "a", "i", "n", ".", "g", "o" >>

Filenames == { ChangelogUpper, ChangelogMixed, GopkgToml, MainGo }

\* A character of a pattern that matches any character: the unescaped dot.
AnyChar == "ANY"

\* truncRe = changelog|CHANGELOG|Gopkg.toml, unanchored.
truncRe ==
    { << "c", "h", "a", "n", "g", "e", "l", "o", "g" >>,
      << "C", "H", "A", "N", "G", "E", "L", "O", "G" >>,
      << "G", "o", "p", "k", "g", AnyChar, "t", "o", "m", "l" >> }

MatchAt(s, i, pat) ==
    /\ i + Len(pat) - 1 <= Len(s)
    /\ \A j \in 1..Len(pat) : pat[j] = AnyChar \/ s[i + j - 1] = pat[j]

\* re.MatchString(s): some alternative matches somewhere in s.
MatchString(re, s) == \E pat \in re : \E i \in 1..Len(s) : MatchAt(s, i, pat)

CommitFile(name, adds, dels) ==
    [kind |-> "file", Filename |-> name, Additions |-> adds, Deletions |-> dels]

GetFilename(f) == f.Filename

GetAdditions(f) == f.Additions

GetDeletions(f) == f.Deletions

\* A pull request as PullSummary reads it.
PullWithURL(url, merged, closed, changed) ==
    [kind |-> "pr", HTMLURL |-> url, MergedAt |-> merged, ClosedAt |-> closed,
     User |-> User(Alice), Title |-> "title", ChangedFiles |-> changed]

GetHTMLURL(p) == IF p = Nil THEN "" ELSE p.HTMLURL

PullURLs == { "https://github.com/o/p/pull/1", "https://github.com/o/p/pull/2" }

\* if seen[pr.GetHTMLURL()]
SeenBeforeNever(seen, url) == FALSE

SeenBefore(seen, url) == url \in seen

\* What one file adds to added.
FileAddedUncapped(f) == GetAdditions(f)

FileAdded(f) ==
    IF MatchString(truncRe, GetFilename(f)) /\ GetAdditions(f) > TruncTo
    THEN TruncTo
    ELSE GetAdditions(f)

\* What one file adds to deleted.
FileDeletedCapped(f) ==
    IF MatchString(truncRe, GetFilename(f)) /\ GetDeletions(f) > TruncTo
    THEN TruncTo
    ELSE GetDeletions(f)

FileDeleted(f) == GetDeletions(f)

\* The loop over files: added, deleted and paths after the first k files.
RECURSIVE CountFiles(_, _)
CountFiles(files, k) ==
    IF k = 0
    THEN [added |-> 0, deleted |-> 0, paths |-> <<>>]
    ELSE LET c == CountFiles(files, k - 1)
             f == files[k]
         IN  [added   |-> c.added + FileAdded(f),
              deleted |-> c.deleted + FileDeleted(f),
              paths   |-> Append(c.paths, GetFilename(f))]

\* strings.Join(paths, "\n")
RECURSIVE Join(_, _)
Join(paths, sep) ==
    IF Len(paths) = 0 THEN <<>>
    ELSE IF Len(paths) = 1 THEN paths[1]
    ELSE paths[1] \o sep \o Join(Tail(paths), sep)

PRSummary(pr, files, t) ==
    LET c == CountFiles(files, Len(files)) IN
    [ URL        |-> GetHTMLURL(pr),
      Date       |-> FormatDate(t),
      Title      |-> pr.Title,
      User       |-> GetLogin(GetUser(pr)),
      Delta      |-> c.added + c.deleted,
      Added      |-> c.added,
      Deleted    |-> c.deleted,
      FilesTotal |-> pr.ChangedFiles,
      Files      |-> Join(c.paths, << "\n" >>) ]

\* t := pr.GetMergedAt(); if t.IsZero() { t = pr.GetClosedAt() }
SummaryTime(pr) ==
    IF IsZero(GetMergedAt(pr)) THEN GetClosedAt(pr) ELSE GetMergedAt(pr)

\* The range loop from entry i on, with seen and sum as they stand.
RECURSIVE SummaryLoop(_, _, _, _, _, _)
SummaryLoop(batch, i, seen, sum, s, u) ==
    IF i > Len(batch) THEN sum
    ELSE
    LET pr == batch[i].pr
        files == batch[i].files
        t == SummaryTime(pr)
    IN  IF SeenBefore(seen, GetHTMLURL(pr))
        THEN SummaryLoop(batch, i + 1, seen, sum, s, u)
        ELSE IF After(t, u) \/ Before(t, s)
        THEN SummaryLoop(batch, i + 1, seen \cup {GetHTMLURL(pr)}, sum, s, u)
        ELSE SummaryLoop(batch, i + 1, seen \cup {GetHTMLURL(pr)},
                         Append(sum, PRSummary(pr, files, t)), s, u)

PullSummary(batch, s, u) ==
    [kind |-> "return", sum |-> SummaryLoop(batch, 1, {}, <<>>, s, u),
     err |-> Nil]

\* The inputs: files, file lists, pull requests, batches.
\* Files of 3 added lines and none deleted, below TruncTo, and of 37 added
\* and 37 deleted lines, above it.
Files ==
    { CommitFile(name, 3, 0) : name \in Filenames } \cup
    { CommitFile(name, 37, 37) : name \in Filenames }

FileLists(k) ==
    UNION { [1..len -> Files] : len \in 0..k }

\* Closed at any instant with no merge timestamp, or merged the instant
\* before it was closed.
SummaryPulls ==
    { PullWithURL(url, ZeroTime, c, 1) : url \in PullURLs, c \in Times } \cup
    { PullWithURL(url, c - 1, c, 1) : url \in PullURLs, c \in {MaxTime} }

MapEntry(pr, files) == [pr |-> pr, files |-> files]

\* The number of files in a batch.
RECURSIVE FilesIn(_)
FilesIn(batch) ==
    IF Len(batch) = 0 THEN 0
    ELSE Len(batch[1].files) + FilesIn(Tail(batch))

SummaryInit ==
    /\ RetryIdle
    /\ AggIdle
    /\ entry = "RetryGithubCall"
    /\ since \in 2..(MaxTime - 1)
    /\ until \in since..MaxTime
    /\ users = <<>>
    /\ branches = <<>>
    /\ ppc = "idle"
    /\ fetched = <<>>
    /\ idx = 0
    /\ result = <<>>
    /\ pipeRet = NoRet
    /\ cache = EmptyCache
    /\ lastOp = NoOp
    /\ prs = <<>>
    /\ sumRet = NoRet
    /\ ChartIdle
    /\ RunIdle

\* The caller fills the map: one more entry, at most MaxBatch entries with
\* at most MaxFiles files in all.  range visits the entries in any order;
\* prs holds them in the order of the visit.
PutEntry ==
    /\ sumRet = NoRet
    /\ Len(prs) < MaxBatch
    /\ \E pr \in SummaryPulls, fl \in FileLists(MaxFiles - FilesIn(prs)) :
         prs' = Append(prs, MapEntry(pr, fl))
    /\ UNCHANGED sumRet

CallPullSummary ==
    /\ sumRet = NoRet
    /\ sumRet' = PullSummary(prs, since, until)
    /\ UNCHANGED prs

SummaryNext ==
    \/ PutEntry /\ UNCHANGED << retryVars, aggVars, pipeVars, chartVars, runVars >>
    \/ CallPullSummary /\ UNCHANGED << retryVars, aggVars, pipeVars, chartVars, runVars >>

SpecSummary == SummaryInit /\ [][SummaryNext]_vars

(***************************************************************************)
(* Properties of PullSummary.                                              *)
(***************************************************************************)
SumDone == sumRet # NoRet

BatchURLs == { GetHTMLURL(prs[i].pr) : i \in 1..Len(prs) }

\* The entry of the batch that range visits first among those with this URL.
FirstWith(url) ==
    prs[CHOOSE i \in 1..Len(prs) :
            /\ GetHTMLURL(prs[i].pr) = url
            /\ \A j \in 1..(i - 1) : GetHTMLURL(prs[j].pr) # url]

SummariesOf(url) == { k \in 1..Len(sumRet.sum) : sumRet.sum[k].URL = url }

Min(a, b) == IF a < b THEN a ELSE b

Contribution(f) ==
    IF MatchString(truncRe, GetFilename(f))
    THEN Min(GetAdditions(f), TruncTo)
    ELSE GetAdditions(f)

RECURSIVE SumOver(_, _)
SumOver(files, part) ==
    IF Len(files) = 0 THEN 0
    ELSE (IF part = "added" THEN Contribution(files[1])
          ELSE GetDeletions(files[1])) + SumOver(Tail(files), part)

\* The list holds a file of this name with these additions.
HasFile(files, name, adds) ==
    \E k \in 1..Len(files) :
        GetFilename(files[k]) = name /\ GetAdditions(files[k]) = adds

(***************************************************************************)
(* C15: Added of a summary is the sum over the files of its pull request   *)
(* of min(additions, TruncTo) for a path that matches truncRe and of the   *)
(* additions for a path that does not: 37 additions count 10 in            *)
(* CHANGELOG.md and Gopkg.toml, 37 in main.go and Changelog.md.            *)
(***************************************************************************)
C15_AddedIsCapped ==
    SumDone =>
        \A k \in 1..Len(sumRet.sum) :
            LET first == FirstWith(sumRet.sum[k].URL) IN
            /\ sumRet.sum[k].Added = SumOver(first.files, "added")
            /\ first.files = << CommitFile(ChangelogUpper, 37, 37) >>
                 => sumRet.sum[k].Added = 10
            /\ first.files = << CommitFile(MainGo, 37, 37) >>
                 => sumRet.sum[k].Added = 37

\* One file that matches and one that does not, 37 additions each.
C15_Witness ==
    /\ SumDone
    /\ Len(sumRet.sum) = 1
    /\ LET files == FirstWith(sumRet.sum[1].URL).files IN
       /\ HasFile(files, GopkgToml, 37)
       /\ HasFile(files, ChangelogMixed, 37)
    /\ sumRet.sum[1].Added = 47

(***************************************************************************)
(* C16: Deleted of a summary is the sum of the deletions of all files of   *)
(* its pull request, none of them capped, and Delta is Added + Deleted.    *)
(***************************************************************************)
C16_DeletedUncapped ==
    SumDone =>
        \A k \in 1..Len(sumRet.sum) :
            LET first == FirstWith(sumRet.sum[k].URL) IN
            /\ sumRet.sum[k].Deleted = SumOver(first.files, "deleted")
            /\ sumRet.sum[k].Delta =
                   sumRet.sum[k].Added + sumRet.sum[k].Deleted

\* Two files that match truncRe with 37 deletions each.
C16_Witness ==
    /\ SumDone
    /\ Len(sumRet.sum) = 1
    /\ LET files == FirstWith(sumRet.sum[1].URL).files IN
       /\ Len(files) = 2
       /\ \A k \in 1..2 : MatchString(truncRe, GetFilename(files[k]))
       /\ \A k \in 1..2 : GetDeletions(files[k]) = 37
    /\ sumRet.sum[1].Deleted = 74
    /\ sumRet.sum[1].Added = 20
    /\ sumRet.sum[1].Delta = 94

-----------------------------------------------------------------------------
(***************************************************************************)
(* The range loops of MergedPulls and issues on one candidate that passes  *)
(* the filters on timestamps and state, for every combination of author,   *)
(* merging or closing user, target branch and allow-lists.  The run starts *)
(* where the loop starts: the aggregator has returned a listing of one     *)
(* candidate, updated and closed at until.                                 *)
(***************************************************************************)
\* What the remote holds for the listed pull request: who wrote it, who
\* merged it (MergedBy, which MergedPulls reads nowhere) and its target
\* branch.
RulePulls(num) ==
    { [ PullRequest(num, until, until, merged, User(a), "closed", ref,
                    FALSE, "") EXCEPT !.MergedBy = mb ] :
        a \in {Alice, AliceUpper, DeployBot}, ref \in {Main, MainUpper, Dev},
        mb \in {Nil, User(Bob)}, merged \in {ZeroTime, since, until} }

RuleIssues(num) ==
    { Issue(num, FALSE, until, until, 1, "closed", User(a), cb) :
        a \in {Alice, AliceUpper, DeployBot},
        cb \in {Nil, User(BobUpper), User(DeployBot)} }

RuleListings(e) ==
    IF e = "MergedPulls"
    THEN { << pr >> : pr \in RulePulls(1) }
    ELSE { << i >> : i \in RuleIssues(1) }

\* The users and branches arguments.
UserLists == { <<>>, << AliceUpper >>, << Bob >>, << DeployBot >> }

BranchLists(e) ==
    IF e = "MergedPulls" THEN { <<>>, << Main >>, << MainUpper >> }
    ELSE { <<>> }

RulesInit ==
    /\ RetryIdle
    /\ SumIdle
    /\ ChartIdle
    /\ RunIdle
    /\ entry \in { "MergedPulls", "ClosedIssues" }
    /\ agg = AggOf(entry)
    /\ apc = "idle"
    /\ listOpts = ListOptsOf(agg)
    /\ currentOpts = Nil
    /\ cursor = ""
    /\ allItems = <<>>
    /\ reqs = <<>>
    /\ answers = <<>>
    /\ since \in 2..(MaxTime - 1)
    /\ until = MaxTime
    /\ users \in UserLists
    /\ branches \in BranchLists(entry)
    /\ fetched \in RuleListings(entry)
    /\ aggRet = AggReturn(fetched, Nil)
    /\ ppc = "filter"
    /\ idx = 1
    /\ result = <<>>
    /\ pipeRet = NoRet
    /\ cache = EmptyCache
    /\ lastOp = NoOp

RulesNext ==
    \/ MergedPullsStep /\ UNCHANGED << retryVars, aggVars, sumVars, chartVars, runVars >>
    \/ MergedPullsReturn /\ UNCHANGED << retryVars, aggVars, sumVars, chartVars, runVars >>
    \/ IssuesStep /\ UNCHANGED << retryVars, aggVars, sumVars, chartVars, runVars >>
    \/ IssuesReturn /\ UNCHANGED << retryVars, aggVars, sumVars, chartVars, runVars >>
    \/ ClosedIssuesReturn /\ UNCHANGED << retryVars, aggVars, sumVars, chartVars, runVars >>

SpecRules == RulesInit /\ [][RulesNext]_vars

(***************************************************************************)
(* Properties of the identity, branch and merged-state rules.              *)
(***************************************************************************)
\* The login of the user is in the allow-list, letter case aside.
InAllowList(u) ==
    \E i \in DOMAIN users : ToLower(users[i]) = ToLower(GetLogin(u))

\* The iteration skipped its candidate before any detail lookup although
\* the candidate passes every other filter of the listing: the early exit,
\* the window, the bot rule and the state.
PullIdentityReject ==
    /\ entry = "MergedPulls"
    /\ Stepped
    /\ lastOp.verdict = "skip"
    /\ ~lastOp.hit /\ ~lastOp.called
    /\ ~EarlyExit(LastItem)
    /\ InWindow(LastItem.ClosedAt)
    /\ ~isBot(LastItem.User)
    /\ LastItem.State = "closed"

(***************************************************************************)
(* C17: MergedPulls rejects a candidate on identity grounds only if the    *)
(* allow-list is not empty and holds neither the author of the pull        *)
(* request nor the user who merged it.                                     *)
(***************************************************************************)
C17_PullIdentityRule ==
    PullIdentityReject =>
        /\ Len(users) > 0
        /\ ~InAllowList(LastItem.User)
        /\ ~InAllowList(LastItem.MergedBy)

\* What MergedPulls does: it rejects on identity grounds if and only if the
\* allow-list is not empty and does not hold the author.
C17_AuthorOnlyRule ==
    /\ PullIdentityReject => Len(users) > 0 /\ ~InAllowList(LastItem.User)
    /\ (entry = "MergedPulls" /\ Stepped /\ (lastOp.hit \/ lastOp.called)) =>
           Len(users) = 0 \/ InAllowList(LastItem.User)

\* The author is not in the allow-list, the user who merged is: rejected.
C17_RejectedMerger ==
    /\ PullIdentityReject
    /\ InAllowList(LastItem.MergedBy)

\* The helper of issues returned a detail record for the candidate.
IssueDetailInHand ==
    /\ entry = "ClosedIssues"
    /\ Stepped
    /\ lastOp.hit \/ lastOp.called
    /\ lastOp.val # Nil

IssueIdentityPasses ==
    \/ Len(users) = 0
    \/ InAllowList(lastOp.val.User)
    \/ lastOp.val.ClosedBy # Nil /\ InAllowList(lastOp.val.ClosedBy)

(***************************************************************************)
(* C18: issues keeps a candidate that passed the other filters and whose   *)
(* detail record it has if and only if the allow-list is empty or holds,   *)
(* letter case aside, the login of the record's creator or of its closer.  *)
(***************************************************************************)
C18_IssueIdentityRule ==
    IssueDetailInHand =>
        /\ lastOp.verdict = "include" <=> IssueIdentityPasses
        /\ lastOp.verdict = "include" => result[Len(result)] = lastOp.val

\* The same, for the iterations whose cache write did not fail.
C18_IssueIdentityRuleWhenStored ==
    (IssueDetailInHand /\ lastOp.set # "failed") =>
        /\ lastOp.verdict = "include" <=> IssueIdentityPasses
        /\ lastOp.verdict = "include" => result[Len(result)] = lastOp.val

\* Kept for its closer alone, whose login differs in case from the entry of
\* the allow-list.
C18_KeptForCloser ==
    /\ IssueDetailInHand
    /\ lastOp.verdict = "include"
    /\ users = << Bob >>
    /\ lastOp.val.ClosedBy = User(BobUpper)
    /\ ~InAllowList(lastOp.val.User)

\* The detail record is merged and its merge timestamp lies in the window.
MergedInside ==
    /\ lastOp.val.Merged
    /\ lastOp.val.MergeCommitSHA # ""
    /\ Inside(lastOp.val.MergedAt)

\* The target branch of the detail record is one of the caller's branch
\* names, letter case aside.
BranchListed ==
    \E i \in DOMAIN branches :
        ToLower(branches[i]) = ToLower(GetBaseRef(lastOp.val))

(***************************************************************************)
(* C19: with a non-empty branch allow-list a pull request passes the       *)
(* branch rule of MergedPulls if and only if the target branch of its      *)
(* detail record is one of the caller's branch names, whatever the letter  *)
(* case on either side; with an empty allow-list every branch passes.  The *)
(* rule is observed on the candidates whose helper returned no error and   *)
(* whose record passes the filters after the branch rule.                  *)
(***************************************************************************)
C19_BranchRule ==
    (PullDetailInHand /\ lastOp.err = Nil /\ MergedInside) =>
        (lastOp.verdict = "include" <=> Len(branches) = 0 \/ BranchListed)

\* What MergedPulls does: the branch names are lower-cased, the target
\* branch of the record is looked up as it is.
C19_BranchRuleAsCoded ==
    (PullDetailInHand /\ lastOp.err = Nil /\ MergedInside) =>
        (lastOp.verdict = "include" <=>
            Len(branches) = 0 \/ GetBaseRef(lastOp.val) \in matchBranch)

\* The caller names the branch exactly as the record does: rejected.
C19_RejectedSameName ==
    /\ PullDetailInHand
    /\ lastOp.err = Nil
    /\ MergedInside
    /\ branches = << GetBaseRef(lastOp.val) >>
    /\ lastOp.verdict = "skip"

\* The record is in merged state.
IsMergedRecord(r) ==
    r # Nil /\ r.Merged /\ r.MergeCommitSHA # "" /\ ~IsZero(r.MergedAt)

(***************************************************************************)
(* C20: every pull request MergedPulls collects and returns has a detail   *)
(* record that is merged: the merged flag is set, the merge commit is      *)
(* there and mergedAt is not zero.  A pull request whose record is not     *)
(* merged is never collected, also when it was closed inside the window.   *)
(***************************************************************************)
C20_OnlyMerged ==
    entry = "MergedPulls" =>
        /\ \A i \in 1..Len(result) : IsMergedRecord(result[i])
        /\ (pipeRet # NoRet /\ pipeRet.err = Nil) =>
               \A i \in 1..Len(pipeRet.result) :
                   IsMergedRecord(pipeRet.result[i])
        /\ (PullDetailInHand /\ ~IsMergedRecord(lastOp.val)) =>
               lastOp.verdict = "skip"

\* Closed inside the window, fetched and stored, not merged: skipped, and
\* MergedPulls returned an empty result.
C20_Witness ==
    /\ PullDetailInHand
    /\ Inside(LastItem.ClosedAt)
    /\ lastOp.called
    /\ lastOp.set = "ok"
    /\ ~lastOp.val.Merged
    /\ lastOp.verdict = "skip"
    /\ pipeRet # NoRet
    /\ pipeRet.err = Nil
    /\ Len(pipeRet.result) = 0

-----------------------------------------------------------------------------
(***************************************************************************)
(* Properties of the kind rule and of the closing timestamp of issues.     *)
(***************************************************************************)
\* The numbers of the listed items that are pull requests.
ListedPullNumbers == { fetched[k].Number : k \in { j \in DOMAIN fetched : fetched[j].IsPR } }

(***************************************************************************)
(* C21: issues and ClosedIssues never collect or return an item of the     *)
(* listing that is a pull request, whatever its timestamps: the item is    *)
(* skipped before any other filter and before any detail lookup, also when *)
(* its updatedAt lies before since, and the loop goes on.                  *)
(***************************************************************************)
C21_NoPullRequestAsIssue ==
    entry = "ClosedIssues" =>
        /\ \A k \in DOMAIN result : ~result[k].IsPR
        /\ ResultNumbers \cap ListedPullNumbers = {}
        /\ ReturnedNumbers \cap ListedPullNumbers = {}
        /\ (Stepped /\ LastItem.IsPR) =>
               /\ lastOp.verdict = "skip"
               /\ ~lastOp.hit
               /\ ~lastOp.called

\* A closed pull request inside the window was listed after an issue:
\* ClosedIssues returned the issue alone.
C21_Witness ==
    /\ entry = "ClosedIssues"
    /\ ppc = "done"
    /\ pipeRet.err = Nil
    /\ Len(fetched) = 2
    /\ ~fetched[1].IsPR
    /\ fetched[2].IsPR
    /\ Inside(fetched[2].ClosedAt)
    /\ fetched[2].State = "closed"
    /\ ReturnedNumbers = { 1 }

\* The numbers of the listed items whose closedAt lies in [since, until].
ListedClosedInside ==
    { fetched[k].Number : k \in { j \in DOMAIN fetched : Inside(fetched[j].ClosedAt) } }

-----------------------------------------------------------------------------
(***************************************************************************)
(* Properties of the bot rule.                                             *)
(***************************************************************************)
\* The records in seq whose author is a bot.
BotAuthored(seq) == { k \in DOMAIN seq : isBot(GetUser(seq[k])) }

(***************************************************************************)
(* C23: MergedPulls never collects or returns a pull request whose author  *)
(* has a login with a bot suffix: the candidate is skipped before any      *)
(* detail lookup, whether the allow-list is empty, holds the login or      *)
(* holds another one.                                                      *)
(***************************************************************************)
C23_PullBotRule ==
    entry = "MergedPulls" =>
        /\ BotAuthored(result) = {}
        /\ (pipeRet # NoRet /\ pipeRet.err = Nil) =>
               BotAuthored(pipeRet.result) = {}
        /\ (Stepped /\ isBot(LastItem.User)) =>
               /\ lastOp.verdict = "skip"
               /\ ~lastOp.hit
               /\ ~lastOp.called

\* The allow-list holds the login of the bot, the pull request passes the
\* other filters of the listing: skipped, and MergedPulls returned nothing.
C23_Witness ==
    /\ entry = "MergedPulls"
    /\ Stepped
    /\ isBot(LastItem.User)
    /\ InAllowList(LastItem.User)
    /\ InWindow(LastItem.ClosedAt)
    /\ LastItem.State = "closed"
    /\ lastOp.verdict = "skip"
    /\ ppc = "done"
    /\ pipeRet.err = Nil
    /\ Len(pipeRet.result) = 0

(***************************************************************************)
(* C24: issues and ClosedIssues never collect or return an issue whose     *)
(* author has a login with a bot suffix, as MergedPulls does for pull      *)
(* requests.                                                               *)
(***************************************************************************)
C24_IssueBotRule ==
    entry = "ClosedIssues" =>
        /\ BotAuthored(result) = {}
        /\ (ppc = "done" /\ pipeRet.err = Nil) =>
               \A k \in DOMAIN pipeRet.result :
                   ~HasSuffix(pipeRet.result[k].Author, << "b", "o", "t" >>)
        /\ (Stepped /\ isBot(LastItem.User)) => lastOp.verdict # "include"

-----------------------------------------------------------------------------
(***************************************************************************)
(* The issue charts of the leaderboard: issueOpenerChart and               *)
(* issueCloserChart tally the authors and the closers of a list of issue   *)
(* summaries in a map uMap from login to count.  The chart's Items are     *)
(* made from uMap by topItems(mapToItems(uMap)); the tally is what is      *)
(* modelled.                                                               *)
(***************************************************************************)
\* The longest list of summaries given to a chart.
MaxSummaries == 2

\* map[string]int{}
EmptyTally == [k \in {} |-> 0]

\* uMap[k]++
Incr(uMap, k) ==
    [ x \in DOMAIN uMap \cup {k} |->
        IF x = k THEN (IF k \in DOMAIN uMap THEN uMap[k] ELSE 0) + 1
        ELSE uMap[x] ]

\* matchUser of a chart: users, lower-cased
ChartMatchUser(us) == { ToLower(us[i]) : i \in DOMAIN us }

\* The body of the loop of issueOpenerChart: whether the author is tallied.
OpenerTalliedAllowedBots(author, mu) ==
    /\ ~(mu # {} /\ ToLower(author) \notin mu)
    /\ ~HasSuffix(author, << "b", "o", "t" >>) \/ ToLower(author) \in mu

OpenerTallied(author, mu) ==
    /\ ~(mu # {} /\ ToLower(author) \notin mu)
    /\ ~HasSuffix(author, << "b", "o", "t" >>)

RECURSIVE OpenerTally(_, _, _)
\* uMap of issueOpenerChart after the first k summaries
OpenerTally(list, mu, k) ==
    IF k = 0 THEN EmptyTally
    ELSE LET uMap == OpenerTally(list, mu, k - 1)
             author == list[k].Author
         IN  IF OpenerTallied(author, mu) THEN Incr(uMap, author) ELSE uMap

issueOpenerChart(list, us) ==
    [ kind |-> "chart", ID |-> "issueOpener",
      uMap |-> OpenerTally(list, ChartMatchUser(us), Len(list)) ]

RECURSIVE CloserTally(_, _, _)
\* uMap of issueCloserChart after the first k summaries
CloserTally(list, mu, k) ==
    IF k = 0 THEN EmptyTally
    ELSE LET uMap == CloserTally(list, mu, k - 1)
             closer == list[k].Closer
         IN  IF ToLower(closer) \notin mu THEN uMap
             ELSE IF ~HasSuffix(closer, << "b", "o", "t" >>)
             THEN Incr(uMap, closer)
             ELSE uMap

issueCloserChart(list, us) ==
    [ kind |-> "chart", ID |-> "issueCloser",
      uMap |-> CloserTally(list, ChartMatchUser(us), Len(list)) ]

\* The summaries ClosedIssues can make of the issue at position num.
ChartSummaries(num) ==
    { IssueSummary(Issue(num, FALSE, 1, 1, 1, "closed", User(a), cb)) :
        a \in {Alice, AliceUpper, DeployBot},
        cb \in {Nil, User(Bob), User(DeployBot)} }

ChartsInit ==
    /\ RetryIdle
    /\ AggIdle
    /\ SumIdle
    /\ since = 0
    /\ until = 0
    /\ users \in UserLists
    /\ branches = <<>>
    /\ ppc = "idle"
    /\ fetched = <<>>
    /\ idx = 0
    /\ result = <<>>
    /\ pipeRet = NoRet
    /\ cache = EmptyCache
    /\ lastOp = NoOp
    /\ is = <<>>
    /\ chart = NoRet
    /\ RunIdle

\* The caller's list grows by one summary.
PutSummary ==
    /\ chart = NoRet
    /\ Len(is) < MaxSummaries
    /\ \E sm \in ChartSummaries(Len(is) + 1) : is' = Append(is, sm)
    /\ UNCHANGED chart

CallIssueOpenerChart ==
    /\ chart = NoRet
    /\ chart' = issueOpenerChart(is, users)
    /\ UNCHANGED is

CallIssueCloserChart ==
    /\ chart = NoRet
    /\ chart' = issueCloserChart(is, users)
    /\ UNCHANGED is

ChartsNext ==
    \/ PutSummary /\ UNCHANGED << retryVars, aggVars, pipeVars, sumVars, runVars >>
    \/ CallIssueOpenerChart /\ UNCHANGED << retryVars, aggVars, pipeVars, sumVars, runVars >>
    \/ CallIssueCloserChart /\ UNCHANGED << retryVars, aggVars, pipeVars, sumVars, runVars >>

SpecCharts == ChartsInit /\ [][ChartsNext]_vars

(***************************************************************************)
(* Properties of the issue charts.                                         *)
(***************************************************************************)
\* The number of summaries of the list whose field has the value v.
Occurrences(field, v) == Cardinality({ k \in DOMAIN is : is[k][field] = v })

\* The logins of the authors in the list that end in "bot".
BotAuthors ==
    { is[k].Author : k \in { j \in DOMAIN is :
                                HasSuffix(is[j].Author, << "b", "o", "t" >>) } }

(***************************************************************************)
(* C25: the tally of issueOpenerChart never has a login ending in "bot"    *)
(* as an author, for every list of summaries and every allow-list, the     *)
(* allow-lists that hold the login included; the other authors the         *)
(* allow-list lets through are tallied with the number of their issues.    *)
(***************************************************************************)
C25_NoBotOpener ==
    (chart # NoRet /\ chart.ID = "issueOpener") =>
        /\ \A a \in DOMAIN chart.uMap : ~HasSuffix(a, << "b", "o", "t" >>)
        /\ DOMAIN chart.uMap \cap BotAuthors = {}
        /\ \A k \in DOMAIN is :
               ( /\ is[k].Author \notin BotAuthors
                 /\ Len(users) = 0 \/ InAllowList(User(is[k].Author)) ) =>
                   /\ is[k].Author \in DOMAIN chart.uMap
                   /\ chart.uMap[is[k].Author] = Occurrences("Author", is[k].Author)

\* The allow-list holds the login of a bot that opened an issue; another
\* issue was opened by someone else: the chart is empty.
C25_Witness ==
    /\ chart # NoRet
    /\ chart.ID = "issueOpener"
    /\ users = << DeployBot >>
    /\ Len(is) = 2
    /\ is[1].Author = DeployBot
    /\ is[2].Author = Alice
    /\ DOMAIN chart.uMap = {}

\* The closers the closer chart is to tally with an empty allow-list: the
\* logins of the closers that do not end in "bot".  A summary of an issue
\* without closer has the empty login, which is left aside.
NonBotClosers ==
    { is[k].Closer : k \in { j \in DOMAIN is :
                                /\ is[j].Closer # <<>>
                                /\ ~HasSuffix(is[j].Closer, << "b", "o", "t" >>) } }

\* The authors the opener chart is to tally with an empty allow-list.
NonBotAuthors == { is[k].Author : k \in DOMAIN is } \ BotAuthors

(***************************************************************************)
(* C26: with an empty user list a chart tallies everyone who is not a bot: *)
(* issueCloserChart every closer whose login does not end in "bot", with   *)
(* the number of issues closed, as issueOpenerChart does with the authors. *)
(***************************************************************************)
C26_EmptyAllowListMatchesAll ==
    (chart # NoRet /\ Len(users) = 0) =>
        /\ chart.ID = "issueOpener" =>
               /\ DOMAIN chart.uMap = NonBotAuthors
               /\ \A a \in NonBotAuthors :
                      chart.uMap[a] = Occurrences("Author", a)
        /\ chart.ID = "issueCloser" =>
               /\ NonBotClosers \subseteq DOMAIN chart.uMap
               /\ \A c \in NonBotClosers :
                      chart.uMap[c] = Occurrences("Closer", c)

\* The opener half, and what issueCloserChart does with an empty user
\* list: it tallies nobody.
C26_OpenersOnly ==
    (chart # NoRet /\ Len(users) = 0) =>
        /\ chart.ID = "issueOpener" =>
               /\ DOMAIN chart.uMap = NonBotAuthors
               /\ \A a \in NonBotAuthors :
                      chart.uMap[a] = Occurrences("Author", a)
        /\ chart.ID = "issueCloser" => DOMAIN chart.uMap = {}

\* An empty user list and an issue closed by a user who is not a bot: the
\* closer chart is empty.
C26_CloserDropped ==
    /\ chart # NoRet
    /\ chart.ID = "issueCloser"
    /\ Len(users) = 0
    /\ Bob \in NonBotClosers
    /\ DOMAIN chart.uMap = {}

-----------------------------------------------------------------------------
(***************************************************************************)
(* Properties of the time the pipelines pass to the cache.                 *)
(***************************************************************************)
\* The last iteration called its helper, which passed lastOp.asOf to p.Get.
LookedUp == Stepped /\ (lastOp.hit \/ lastOp.called)

\* The first of the candidate's closed, merged, updated and created times
\* that is not zero; an issue has no merged time, and the listing names no
\* created time for a pull request.
ClosedFirst(item) ==
    IF ~IsZero(item.ClosedAt) THEN item.ClosedAt
    ELSE IF item.kind = "pr" /\ ~IsZero(item.MergedAt) THEN item.MergedAt
    ELSE IF ~IsZero(item.UpdatedAt) THEN item.UpdatedAt
    ELSE IF item.kind = "issue" THEN item.CreatedAt
    ELSE ZeroTime

\* The same with the merged time of a pull request before its closed time.
MergedFirst(item) ==
    IF item.kind = "pr" /\ ~IsZero(item.MergedAt) THEN item.MergedAt
    ELSE IF ~IsZero(item.ClosedAt) THEN item.ClosedAt
    ELSE IF ~IsZero(item.UpdatedAt) THEN item.UpdatedAt
    ELSE IF item.kind = "issue" THEN item.CreatedAt
    ELSE ZeroTime

(***************************************************************************)
(* C27: the time a pipeline passes to the cache for a candidate is the     *)
(* candidate's closed time, else its merged time, else its updated time,   *)
(* else its created time.                                                  *)
(***************************************************************************)
C27_AsOfClosedFirst == LookedUp => lastOp.asOf = ClosedFirst(LastItem)

(***************************************************************************)
(* C27, merged time first: the time MergedPulls passes to the cache is the *)
(* listed pull request's merged time, else its closed time, else its       *)
(* updated time; the time issues passes is the listed issue's closed time, *)
(* else its updated time, else its created time.  Every candidate that     *)
(* gets as far as the lookup has a closed time.                            *)
(***************************************************************************)
C27_AsOfMergedFirst ==
    LookedUp =>
        /\ lastOp.asOf = MergedFirst(LastItem)
        /\ ~IsZero(LastItem.ClosedAt)
        /\ entry = "ClosedIssues" => lastOp.asOf = LastItem.ClosedAt
        /\ ~IsZero(lastOp.asOf)

\* A pull request listed with a merged time before its closed time was
\* looked up as of its merged time.
C27_Witness ==
    /\ entry = "MergedPulls"
    /\ LookedUp
    /\ ~IsZero(LastItem.MergedAt)
    /\ LastItem.MergedAt < LastItem.ClosedAt
    /\ lastOp.asOf = LastItem.MergedAt

-----------------------------------------------------------------------------
(***************************************************************************)
(* Properties of the order of the results.                                 *)
(***************************************************************************)
\* The positions in the listing of the entities of seq, in the order of
\* seq; the entity listed at position k has the number k.
PositionsOf(seq) ==
    [ k \in DOMAIN seq |->
        IF "Number" \in DOMAIN seq[k] THEN seq[k].Number ELSE seq[k].URL[2] ]

\* pos names positions of the listing in strictly ascending order: the
\* entities are a subsequence of the listing, none of them twice.
IsSubsequenceOfListing(pos) ==
    /\ \A k \in DOMAIN pos : pos[k] \in DOMAIN fetched
    /\ \A j, k \in DOMAIN pos : j < k => pos[j] < pos[k]

(***************************************************************************)
(* C28: what MergedPulls and ClosedIssues collect and return is a          *)
(* subsequence of the server's listing: the entities stand in the order    *)
(* in which they were listed and passed the filters, each at most once,    *)
(* and a candidate that passes is put after everything collected before.   *)
(***************************************************************************)
C28_ResultInListingOrder ==
    Filtering =>
        /\ IsSubsequenceOfListing(PositionsOf(result))
        /\ (Stepped /\ lastOp.verdict = "include") =>
               /\ result[Len(result)] = lastOp.val
               /\ result[Len(result)].Number = lastOp.num
               /\ lastOp.num = lastOp.idx
        /\ (ppc = "done" /\ pipeRet.err = Nil) =>
               /\ PositionsOf(pipeRet.result) = PositionsOf(result)
               /\ IsSubsequenceOfListing(PositionsOf(pipeRet.result))

\* Two listed entities passed the filters and were returned, the one
\* listed first in front.
C28_Witness ==
    /\ Filtering
    /\ ppc = "done"
    /\ pipeRet.err = Nil
    /\ Len(fetched) = 2
    /\ PositionsOf(pipeRet.result) = << 1, 2 >>

-----------------------------------------------------------------------------
(***************************************************************************)
(* MergedPulls and issues run again and again over a repository whose      *)
(* data does not change: every run is given the same listing and every     *)
(* detail call that succeeds is answered with the same record.  A run can  *)
(* be interrupted anywhere; the next run starts with the cache as the runs *)
(* before it left it.                                                      *)
(***************************************************************************)
\* Runs of the pipeline, the first from an empty cache.
MaxRuns == 3

\* The listed pull requests and issues: closed inside the window, updated
\* inside it or before since.
RerunItems(e, num) ==
    IF e = "MergedPulls"
    THEN { PullRequest(num, u, until, ZeroTime, User(Alice), "closed", <<>>,
                       FALSE, "") : u \in {since - 1, until} }
    ELSE { Issue(num, FALSE, u, until, 1, "closed", User(Alice), Nil) :
             u \in {since - 1, until} }

RerunListings(e) ==
    { << a, b >> : a \in RerunItems(e, 1), b \in RerunItems(e, 2) }

\* The detail records the remote API can hold for the listed items.
RemoteDetails(e, list) ==
    IF e = "MergedPulls"
    THEN { << a, b >> : a \in PullDetails(list[1]), b \in PullDetails(list[2]) }
    ELSE { << a, b >> : a \in IssueDetails(list[1]), b \in IssueDetails(list[2]) }

\* The successful answer of the detail call for the listed item.
RemoteAnswer(item) == { [data |-> remote[item.Number], resp |-> Resp(1)] }

\* The body of the range loop of the pipeline that runs.
PipeBody(item, c, outs, setOk, cancelled) ==
    IF entry = "MergedPulls"
    THEN MergedPullsBody(item, c, outs, setOk, cancelled)
    ELSE IssuesBody(item, c, outs, setOk, cancelled)

RerunInit ==
    /\ RetryIdle
    /\ SumIdle
    /\ ChartIdle
    /\ entry \in { "MergedPulls", "ClosedIssues" }
    /\ agg = AggOf(entry)
    /\ apc = "idle"
    /\ listOpts = ListOptsOf(agg)
    /\ currentOpts = Nil
    /\ cursor = ""
    /\ allItems = <<>>
    /\ reqs = <<>>
    /\ answers = <<>>
    /\ since = MaxTime - 1
    /\ until = MaxTime
    /\ users \in { <<>>, << Bob >> }
    /\ branches = <<>>
    /\ fetched \in RerunListings(entry)
    /\ aggRet = AggReturn(fetched, Nil)
    /\ ppc = "filter"
    /\ idx = 1
    /\ result = <<>>
    /\ pipeRet = NoRet
    /\ cache = EmptyCache
    /\ lastOp = NoOp
    /\ remote \in RemoteDetails(entry, fetched)
    /\ run = [NoRun EXCEPT !.no = 1]
    /\ inst = <<>>
    /\ help = NoHelp

\* One iteration of the range loop; the detail call, if one is made, fails
\* or is answered with the record the remote holds.
RerunStep ==
    /\ ppc = "filter"
    /\ \E outs \in CallOuts(RemoteAnswer(fetched[idx])), setOk \in BOOLEAN :
         LET v == PipeBody(fetched[idx], cache, outs, setOk, ctxDone) IN
           /\ LoopStep(v)
           /\ run' = [run EXCEPT !.clean = @ /\ v.got.err = Nil,
                                 !.hits = @ + (IF v.got.hit THEN 1 ELSE 0),
                                 !.fetches = @ + (IF v.got.called THEN 1 ELSE 0)]
    /\ UNCHANGED << remote, inst, help >>

\* The next run starts: the listing is fetched again and is the same, the
\* cache is as it was left.
NextRun ==
    /\ run.no < MaxRuns
    /\ run' = [NoRun EXCEPT !.no = run.no + 1]
    /\ ppc' = "filter"
    /\ idx' = 1
    /\ result' = <<>>
    /\ pipeRet' = NoRet
    /\ lastOp' = NoOp
    /\ UNCHANGED << since, until, users, branches, fetched, cache, remote, inst, help >>

\* The run has returned and the pipeline is run again.
RunAgain ==
    /\ ppc = "done"
    /\ NextRun

\* The process dies in the middle of a run and the pipeline is run again.
Interrupted ==
    /\ ppc \in { "filter", "loopdone", "returned" }
    /\ idx > 1
    /\ NextRun

RerunNext ==
    \/ RerunStep /\ UNCHANGED << retryVars, aggVars, sumVars, chartVars >>
    \/ MergedPullsReturn /\ UNCHANGED << retryVars, aggVars, sumVars, chartVars, runVars >>
    \/ IssuesReturn /\ UNCHANGED << retryVars, aggVars, sumVars, chartVars, runVars >>
    \/ ClosedIssuesReturn /\ UNCHANGED << retryVars, aggVars, sumVars, chartVars, runVars >>
    \/ RunAgain /\ UNCHANGED << retryVars, aggVars, sumVars, chartVars >>
    \/ Interrupted /\ UNCHANGED << retryVars, aggVars, sumVars, chartVars >>

SpecRerun == RerunInit /\ [][RerunNext]_vars

RECURSIVE RunLoop(_, _, _, _)
\* The range loop as a function: what a run over list from position i on
\* collects, and the cache it leaves, when it holds res and the cache is c
\* and every call succeeds.
RunLoop(list, i, c, res) ==
    IF i > Len(list) THEN [result |-> res, cache |-> c]
    ELSE LET v == PipeBody(list[i], c,
                           << Outcome(remote[list[i].Number], Resp(1), Nil) >>,
                           TRUE, FALSE)
         IN  IF v.verdict = "break" THEN [result |-> res, cache |-> v.got.cache]
             ELSE RunLoop(list, i + 1, v.got.cache,
                          IF v.verdict = "include" THEN Append(res, v.full)
                          ELSE res)

\* What the pipeline returns for the records res its loop collected.
ReturnOf(res) ==
    IF entry = "MergedPulls" THEN res
    ELSE [k \in DOMAIN res |-> IssueSummary(res[k])]

\* The run that starts with an empty cache.
FromEmptyCache == RunLoop(fetched, 1, EmptyCache, <<>>)

(***************************************************************************)
(* C32: a run in which no call fails returns what the run that starts      *)
(* with an empty cache returns, whatever the runs before it left in the    *)
(* cache: they may have returned, have been interrupted at any candidate,  *)
(* or have failed to fetch or to store some of the records.                *)
(***************************************************************************)
C32_RerunSameResult ==
    (ppc = "done" /\ run.clean) =>
        /\ pipeRet.err = Nil
        /\ pipeRet.result = ReturnOf(FromEmptyCache.result)

\* The third run found one record in the cache and fetched the other, and
\* returned both.
C32_Witness ==
    /\ run.no = MaxRuns
    /\ ppc = "done"
    /\ run.clean
    /\ run.hits = 1
    /\ run.fetches = 1
    /\ Len(pipeRet.result) = 2

-----------------------------------------------------------------------------
(***************************************************************************)
(* Two instances of one pipeline run at the same time over the same        *)
(* repository and share the cache and nothing else.  p.Get and p.Set are   *)
(* each one step of the cache; the lookup, the remote call and the write   *)
(* of a helper are steps of their own, so that the steps of the two        *)
(* instances interleave in every way.  Every call succeeds.                *)
(***************************************************************************)
Instances == {1, 2}

\* An instance at the start of its range loop.
StartedInstance ==
    [ pc |-> "lookup", idx |-> 1, result |-> <<>>, val |-> Nil, ret |-> NoRet,
      fetches |-> 0 ]

\* The key and the blob field of the helper the pipeline calls.
KeyOf(item) ==
    IF entry = "MergedPulls" THEN PRKey(org, project, item.Number)
    ELSE IssueKey(org, project, item.Number)

BlobFieldOf(e) == IF e = "MergedPulls" THEN "GHPullRequest" ELSE "GHIssue"

\* The end of an iteration with verdict v: the instance goes on with the
\* next candidate or leaves the loop.
Advance(r, v) ==
    [ r EXCEPT !.result = IF v.verdict = "include" THEN Append(@, v.full) ELSE @,
               !.idx = @ + 1,
               !.pc = IF v.verdict = "break" \/ r.idx = Len(fetched)
                      THEN "loopdone" ELSE "lookup",
               !.val = Nil ]

ConcInit ==
    /\ RetryIdle
    /\ SumIdle
    /\ ChartIdle
    /\ entry \in { "MergedPulls", "ClosedIssues" }
    /\ agg = AggOf(entry)
    /\ apc = "idle"
    /\ listOpts = ListOptsOf(agg)
    /\ currentOpts = Nil
    /\ cursor = ""
    /\ allItems = <<>>
    /\ reqs = <<>>
    /\ answers = <<>>
    /\ since = MaxTime - 1
    /\ until = MaxTime
    /\ users \in { <<>>, << Bob >> }
    /\ branches = <<>>
    /\ fetched \in RerunListings(entry)
    /\ aggRet = AggReturn(fetched, Nil)
    /\ ppc = "idle"
    /\ idx = 0
    /\ result = <<>>
    /\ pipeRet = NoRet
    /\ cache = EmptyCache
    /\ lastOp = NoOp
    /\ remote \in RemoteDetails(entry, fetched)
    /\ run = NoRun
    /\ inst = [i \in Instances |-> StartedInstance]
    /\ help = NoHelp

\* The list-level filters of an iteration and, for a candidate that passes
\* them, p.Get: on a hit the iteration ends here, on a miss the remote call
\* is next.
ConcLookup ==
    \E i \in Instances :
        /\ inst[i].pc = "lookup"
        /\ LET item == fetched[inst[i].idx]
               v == PipeBody(item, cache, << Outcome(remote[item.Number], Resp(1), Nil) >>,
                             TRUE, FALSE)
           IN  inst' = [inst EXCEPT ![i] = IF v.got.called
                                          THEN [@ EXCEPT !.pc = "fetch"]
                                          ELSE Advance(@, v)]
        /\ UNCHANGED << cache, remote, run, help >>

\* RetryGithubCall returns the record the remote holds.
ConcFetch ==
    \E i \in Instances :
        /\ inst[i].pc = "fetch"
        /\ inst' = [inst EXCEPT ![i].pc = "set",
                                ![i].val = remote[fetched[inst[i].idx].Number],
                                ![i].fetches = @ + 1]
        /\ UNCHANGED << cache, remote, run, help >>

\* p.Set of the fetched record, and the rest of the iteration with it.
ConcSet ==
    \E i \in Instances :
        /\ inst[i].pc = "set"
        /\ LET item == fetched[inst[i].idx]
               v == PipeBody(item, EmptyCache, << Outcome(inst[i].val, Resp(1), Nil) >>,
                             TRUE, FALSE)
           IN  /\ cache' = CacheSet(cache, KeyOf(item),
                                    Blob(BlobFieldOf(entry), inst[i].val), TRUE).cache
               /\ inst' = [inst EXCEPT ![i] = Advance(@, v)]
        /\ UNCHANGED << remote, run, help >>

ConcReturn ==
    \E i \in Instances :
        /\ inst[i].pc = "loopdone"
        /\ inst' = [inst EXCEPT ![i].pc = "done",
                                ![i].ret = PipeReturn(ReturnOf(inst[i].result), Nil)]
        /\ UNCHANGED << cache, remote, run, help >>

concFrame == << since, until, users, branches, ppc, fetched, idx, result,
                pipeRet, lastOp >>

ConcNext ==
    \/ ConcLookup /\ UNCHANGED << retryVars, aggVars, concFrame, sumVars, chartVars >>
    \/ ConcFetch /\ UNCHANGED << retryVars, aggVars, concFrame, sumVars, chartVars >>
    \/ ConcSet /\ UNCHANGED << retryVars, aggVars, concFrame, sumVars, chartVars >>
    \/ ConcReturn /\ UNCHANGED << retryVars, aggVars, concFrame, sumVars, chartVars >>

SpecConc == ConcInit /\ [][ConcNext]_vars

\* Both instances have returned.
BothDone == \A i \in Instances : inst[i].pc = "done"

(***************************************************************************)
(* C33: under every interleaving, an instance that has returned returned   *)
(* what a run alone, from the empty cache, returns; every entry in the     *)
(* cache is at all times the entry a run alone leaves under that key, and  *)
(* when both instances have returned the cache is the cache a run alone    *)
(* leaves.                                                                 *)
(***************************************************************************)
C33_ConcurrentAsAlone ==
    /\ \A i \in Instances :
          inst[i].pc = "done" =>
              /\ inst[i].ret.err = Nil
              /\ inst[i].ret.result = ReturnOf(FromEmptyCache.result)
    /\ \A k \in DOMAIN cache :
          /\ k \in DOMAIN FromEmptyCache.cache
          /\ cache[k] = FromEmptyCache.cache[k]
    /\ BothDone => cache = FromEmptyCache.cache

\* Both instances missed the same key and both fetched and stored its
\* record; the other record was fetched by one of them and read from the
\* cache by the other; both returned the two records.
C33_Witness ==
    /\ BothDone
    /\ inst[1].fetches = 2
    /\ inst[2].fetches = 1
    /\ Len(inst[1].ret.result) = 2
    /\ Len(inst[2].ret.result) = 2

\* Instance i is about to write, or has just written, under a key that
\* already has an entry.
WritesAgain(i) ==
    /\ inst[i].pc = "set"
    /\ KeyOf(fetched[inst[i].idx]) \in DOMAIN cache

\* The entry under the key of every listed item that has one holds the
\* record of that item, for a get as of any time.
EntriesAreTheRecords ==
    \A k \in DOMAIN fetched, t \in Times :
        LET val == CacheGet(cache, KeyOf(fetched[k]), t) IN
        val # Nil =>
            val = Blob(BlobFieldOf(entry), remote[fetched[k].Number])

-----------------------------------------------------------------------------
(***************************************************************************)
(* A caller either lists with an aggregator or asks the helpers for        *)
(* detail records; the remote API can answer either kind of call with a    *)
(* payload that is not of the asserted type.                               *)
(***************************************************************************)
ShapeInit ==
    /\ RetryIdle
    /\ PipeIdle
    /\ SumIdle
    /\ ChartIdle
    /\ RunIdle
    /\ \/ AggIdle
       \/ /\ agg \in OffsetAggs \cup CursorAggs
          /\ entry = agg
          /\ apc = "start"
          /\ listOpts = ListOptsOf(agg)
          /\ currentOpts = Nil
          /\ cursor = ""
          /\ allItems = <<>>
          /\ aggRet = NoRet
          /\ reqs = <<>>
          /\ answers = <<>>

ShapePullRequestsGet ==
    /\ apc = "idle"
    /\ CallPullRequestsGet

ShapeIssuesGet ==
    /\ apc = "idle"
    /\ CallIssuesGet

ShapeNext ==
    \/ AggStart /\ UNCHANGED << retryVars, pipeVars, sumVars, chartVars, runVars >>
    \/ FetchPullRequestPage /\ UNCHANGED << retryVars, pipeVars, sumVars, chartVars, runVars >>
    \/ FetchRepoPage /\ UNCHANGED << retryVars, pipeVars, sumVars, chartVars, runVars >>
    \/ FetchPullRequestsListPage /\ UNCHANGED << retryVars, pipeVars, sumVars, chartVars, runVars >>
    \/ FetchIssuePage /\ UNCHANGED << retryVars, pipeVars, sumVars, chartVars, runVars >>
    \/ FetchIssuePageToken /\ UNCHANGED << retryVars, pipeVars, sumVars, chartVars, runVars >>
    \/ ShapePullRequestsGet /\ UNCHANGED << retryVars, aggVars, sumVars, chartVars, runVars >>
    \/ ShapeIssuesGet /\ UNCHANGED << retryVars, aggVars, sumVars, chartVars, runVars >>

SpecShape == ShapeInit /\ [][ShapeNext]_vars

\* The answer's payload is not of a shape the aggregator expects: it is not
\* a page, and it is not the nil payload without a next page that
\* fetchAllIssuePages and fetchAllRepoPages take as the end of the listing.
UnexpectedShape(a) ==
    /\ ~IsPage(a)
    /\ ~ /\ agg \in { "fetchAllIssuePages", "fetchAllRepoPages" }
         /\ a.data = Nil
         /\ \/ a.resp = Nil
            \/ IF agg = "fetchAllIssuePages" THEN a.resp.After = ""
               ELSE a.resp.NextPage = 0

\* The calls that end in a successful answer with the payload d, after any
\* number of failed attempts.
AnsweredWith(d) == { Append(FailOuts(k), Outcome(d, Resp(1), Nil)) : k \in FailCounts }

\* What a helper did when the remote call gave it a payload of another
\* shape: it returned the error and no record, and left the cache alone.
FatalForHelper(g) ==
    /\ g.called
    /\ g.val = Nil
    /\ g.err.kind = "unexpected type"
    /\ g.set = "none"
    /\ g.cache = cache

(***************************************************************************)
(* C35: an answer with a payload of an unexpected shape is the last answer *)
(* of its aggregation: no request follows it, and the aggregator returns   *)
(* the unexpected-type error for that request and no items, also when it   *)
(* holds pages already.  PullRequestsGet and IssuesGet, called in any      *)
(* state of the cache for an entity that has no entry and answered with    *)
(* such a payload after any number of failed attempts, return the          *)
(* unexpected-type error and no record and leave the cache as it is.       *)
(***************************************************************************)
C35_UnexpectedShapeIsFatal ==
    /\ \A k \in DOMAIN answers :
          UnexpectedShape(answers[k]) =>
              /\ k = Len(answers)
              /\ k = Len(reqs)
              /\ AggDone
              /\ aggRet.items = Nil
              /\ aggRet.err = UnexpectedType(ListCallDesc(agg, reqs[k]))
              /\ cache = EmptyCache
    /\ apc = "idle" =>
          \A num \in HelperNums, t \in Times, setOk \in BOOLEAN, d \in OddPayloads :
              \A outs \in AnsweredWith(d) :
                  /\ PRKey(org, project, num) \notin DOMAIN cache =>
                         FatalForHelper(PullRequestsGet(cache, t, org, project, num,
                                                        outs, setOk, ctxDone))
                  /\ IssueKey(org, project, num) \notin DOMAIN cache =>
                         FatalForHelper(IssuesGet(cache, t, org, project, num,
                                                  outs, setOk, ctxDone))
    /\ (lastOp # NoOp /\ lastOp.err # Nil /\ lastOp.err.kind = "unexpected type") =>
          /\ lastOp.val = Nil
          /\ lastOp.set = "none"
          /\ lastOp.key \in DOMAIN cache => cache[lastOp.key] \notin
                 { Blob(f, d) : f \in {"GHPullRequest", "GHIssue"}, d \in OddPayloads }

\* fetchAllPullRequestPages held a page of two items when its second
\* request was answered with another payload: it returned the error and no
\* items.
C35_Witness ==
    /\ agg = "fetchAllPullRequestPages"
    /\ AggDone
    /\ Len(answers) = 2
    /\ Len(allItems) = 2
    /\ UnexpectedShape(answers[2])
    /\ aggRet.items = Nil
    /\ aggRet.err.kind = "unexpected type"

\* A helper was answered with another payload when the cache held the
\* record of another entity: it returned the error and stored nothing.
C35_HelperAnswered ==
    /\ lastOp # NoOp
    /\ lastOp.called
    /\ lastOp.err # Nil
    /\ lastOp.err.kind = "unexpected type"
    /\ cache # EmptyCache
    /\ lastOp.key \notin DOMAIN cache

(***************************************************************************)
(* The early exit of the two range loops (pr.go 143-147, issue.go          *)
(* 208-219), over listings in any order and with items of either kind.     *)
(***************************************************************************)
\* The positions of the listing whose item was updated before since.
OldPositions ==
    { i \in DOMAIN fetched : Before(fetched[i].UpdatedAt, since) }

\* The loop ran an iteration after the one of an item updated before since.
WentPastOldItem == \E i \in OldPositions : lastOp.idx > i

\* C36: both pipelines stop iterating at the first listing item whose
\* updatedAt is strictly before since, whatever kind that item is and
\* whether or not the listing is sorted: the iteration of such an item looks
\* nothing up and ends the loop, and no iteration runs for a later position.
C36_StopAtFirstOldItem ==
    Stepped =>
        /\ ~WentPastOldItem
        /\ lastOp.idx \in OldPositions =>
               /\ lastOp.verdict = "break"
               /\ ~lastOp.called
               /\ ~lastOp.hit

\* What the code does: MergedPulls stops at the first old item; issues
\* stops at the first old item that is not a pull request, and only skips a
\* pull request whatever its updatedAt.
StoppingPositions ==
    { i \in OldPositions : entry = "MergedPulls" \/ ~IsPullRequest(fetched[i]) }

C36_StopAtFirstOldIssue ==
    Stepped =>
        /\ \A i \in StoppingPositions : lastOp.idx <= i
        /\ lastOp.idx \in StoppingPositions =>
               /\ lastOp.verdict = "break"
               /\ ~lastOp.called
               /\ ~lastOp.hit

\* issues looked up and collected an issue listed after an old pull request.
C36_LookupPastOldPull ==
    /\ entry = "ClosedIssues"
    /\ Stepped
    /\ lastOp.idx = 2
    /\ 1 \in OldPositions
    /\ IsPullRequest(fetched[1])
    /\ lastOp.called
    /\ lastOp.verdict = "include"

(***************************************************************************)
(* Which candidates a range loop looks up (pr.go 140-203, issue.go         *)
(* 207-254).                                                                *)
(***************************************************************************)
\* The list-level rules of MergedPulls and of issues, on the listed item.
InsideWindow(t) == t # ZeroTime /\ since <= t /\ t <= until

SurvivedPullRules(pr) ==
    /\ pr.UpdatedAt >= since
    /\ InsideWindow(pr.ClosedAt)
    /\ users # <<>> => \E k \in DOMAIN users : ToLower(users[k]) = ToLower(GetLogin(pr.User))
    /\ ~isBot(pr.User)
    /\ pr.State = "closed"

SurvivedIssueRules(i) ==
    /\ ~i.IsPR
    /\ i.UpdatedAt >= since
    /\ state = "closed" => InsideWindow(i.ClosedAt)
    /\ state # "" => i.State = state

SurvivedListRules(item) ==
    IF entry = "MergedPulls" THEN SurvivedPullRules(item)
    ELSE SurvivedIssueRules(item)

MaxCalls == 2
\* Pages a paged fetch can have.
MaxHelperPages == 2

HelperNames ==
    { "PullRequestsGet", "PullRequestsListFiles", "PullRequestsListComments",
      "IssuesGet", "IssuesListComments", "Reviews" }

\* The helpers that fetch a list page by page.
PagedHelpers == HelperNames \ { "PullRequestsGet", "IssuesGet" }

\* What comes before the first %s in the key format of a helper.
HelperPrefix(fn) ==
    CASE fn = "PullRequestsGet" -> << "p", "r" >>
      [] fn = "PullRequestsListFiles" ->
            << "p", "r", "-", "l", "i", "s", "t", "f", "i", "l", "e", "s" >>
      [] fn = "PullRequestsListComments" ->
            << "p", "r", "-", "c", "o", "m", "m", "e", "n", "t", "s" >>
      [] fn = "IssuesGet" -> << "i", "s", "s", "u", "e" >>
      [] fn = "IssuesListComments" ->
            << "i", "s", "s", "u", "e", "-", "c", "o", "m", "m", "e", "n", "t", "s" >>
      [] fn = "Reviews" -> << "r", "e", "v", "i", "e", "w" >>

\* key := fmt.Sprintf("<prefix>-%s-%s-%d", org, project, num)
HelperKey(fn, o, p, num) ==
    HelperPrefix(fn) \o << "-" >> \o o \o << "-" >> \o p \o << "-" >> \o Itoa(num)

\* The field of persist.Blob a helper writes and reads.
HelperField(fn) ==
    CASE fn = "PullRequestsGet" -> "GHPullRequest"
      [] fn = "PullRequestsListFiles" -> "GHCommitFiles"
      [] fn = "PullRequestsListComments" -> "GHPullRequestComments"
      [] fn = "IssuesGet" -> "GHIssue"
      [] fn = "IssuesListComments" -> "GHIssueComments"
      [] fn = "Reviews" -> "GHReviews"

\* The kind of payload the type assertion of a helper accepts.
HelperPayloadKind(fn) ==
    CASE fn = "PullRequestsGet" -> "pr"
      [] fn = "IssuesGet" -> "issue"
      [] OTHER -> "page"

\* fmt.Sprintf("PullRequests.ListFiles page %d for %s/%s#%d", ...)
HelperCallDesc(h) ==
    [ call |-> h.fn, page |-> h.page, org |-> h.repo.org,
      project |-> h.repo.project, num |-> h.num ]

\* The repositories the helpers are called for: org and project names may
\* hold "-", as GitHub allows.
Repos ==
    { [org |-> << "o", "-", "p" >>, project |-> << "q" >>],
      [org |-> << "o" >>, project |-> << "p", "-", "q" >>],
      [org |-> << "c", "o", "m", "m", "e", "n", "t", "s" >>,
       project |-> << "o", "-", "p", "-", "q" >>] }

\* The entity a helper call is about.
Identity(fn, repo, num) == [fn |-> fn, repo |-> repo, num |-> num]

IdentityOf(h) == Identity(h.fn, h.repo, h.num)

\* An element of a fetched list: a file, a comment, a review.
Elem(fn, k) == [kind |-> "elem", of |-> fn, page |-> k]

\* The page number a request asks for: opts.Page is 0 in the first request.
AskedPage(h) == IF h.page = 0 THEN 1 ELSE h.page

\* The answers the server can give to the next request of a paged helper:
\* a page with an element (the first page may be empty), followed by another
\* page or not, or a payload of another type.
HelperPageAnswers(h) ==
    LET nextPages == IF Len(h.answers) + 1 >= MaxHelperPages
                     THEN {0} ELSE {0, AskedPage(h) + 1}
        pages == { << Elem(h.fn, AskedPage(h)) >> }
                 \cup (IF h.answers = <<>> THEN { <<>> } ELSE {})
    IN  { ListAnswer(items, np, "", "") : items \in pages, np \in nextPages }
        \cup { [data |-> d, resp |-> ListResponse(0, "", "")] : d \in OddPayloads }

\* The answers to the one request of PullRequestsGet and IssuesGet.
HelperRecordAnswers(h) ==
    DetailAnswers((IF h.fn = "PullRequestsGet" THEN RemotePulls(h.num)
                   ELSE RemoteIssues(h.num)) \cup OddPayloads)

\* if ghResp.NextPage == 0 { break }
PageEndsListingAlways(resp) == TRUE

PageEndsListing(resp) == resp.NextPage = 0

helpFrame == << retryVars, aggVars, sumVars, chartVars, remote, run, inst,
                since, until, users, branches, ppc, fetched, idx, result,
                pipeRet, lastOp >>

\* key := ...; val := p.Get(key, t); if val != nil { return val.<field>, nil }
HelperGet ==
    /\ help.pc = "idle"
    /\ help.calls < MaxCalls
    /\ \E fn \in HelperNames, repo \in Repos, t \in Times :
          LET key == HelperKey(fn, repo.org, repo.project, 1)
              val == CacheGet(cache, key, t)
              h == [NoHelp EXCEPT !.fn = fn, !.repo = repo, !.num = 1,
                                  !.key = key, !.c0 = cache,
                                  !.owner = help.owner,
                                  !.calls = help.calls + 1]
          IN  help' = IF val # Nil
                      THEN [h EXCEPT !.pc = "done", !.hit = TRUE,
                                     !.val = val[HelperField(fn)]]
                      ELSE [h EXCEPT !.pc = "fetch"]
    /\ UNCHANGED << cache, helpFrame >>

\* One pass of the for loop of a paged helper: RetryGithubCall, the type
\* assertion, append, and the test of ghResp.NextPage.
HelperFetchPage ==
    /\ help.pc = "fetch"
    /\ help.fn \in PagedHelpers
    /\ \E outs \in CallOuts(HelperPageAnswers(help)) :
          LET r == RetryGithubCall(HelperCallDesc(help), outs, ctxDone) IN
          help' = IF r.err # Nil
                  THEN [help EXCEPT !.pc = "done", !.err = r.err]
                  ELSE IF r.data.kind # HelperPayloadKind(help.fn)
                  THEN [help EXCEPT !.pc = "done",
                                    !.err = UnexpectedType(HelperCallDesc(help))]
                  ELSE [help EXCEPT !.acc = @ \o r.data.items,
                                    !.answers = Append(@, [data |-> r.data, resp |-> r.resp]),
                                    !.pc = IF PageEndsListing(r.resp)
                                           THEN "set" ELSE "fetch",
                                    !.page = IF PageEndsListing(r.resp)
                                             THEN @ ELSE r.resp.NextPage]
    /\ UNCHANGED << cache, helpFrame >>

\* The one request of PullRequestsGet and IssuesGet.
HelperFetchRecord ==
    /\ help.pc = "fetch"
    /\ help.fn \notin PagedHelpers
    /\ \E outs \in CallOuts(HelperRecordAnswers(help)) :
          LET r == RetryGithubCall(HelperCallDesc(help), outs, ctxDone) IN
          help' = IF r.err # Nil
                  THEN [help EXCEPT !.pc = "done", !.err = r.err]
                  ELSE IF r.data.kind # HelperPayloadKind(help.fn)
                  THEN [help EXCEPT !.pc = "done",
                                    !.err = UnexpectedType(HelperCallDesc(help))]
                  ELSE [help EXCEPT !.acc = r.data,
                                    !.answers = Append(@, [data |-> r.data, resp |-> r.resp]),
                                    !.pc = "set"]
    /\ UNCHANGED << cache, helpFrame >>

\* return fs, p.Set(key, &persist.Blob{<field>: fs})
HelperSet ==
    /\ help.pc = "set"
    /\ \E ok \in BOOLEAN :
          LET s == CacheSet(cache, help.key, Blob(HelperField(help.fn), help.acc), ok)
          IN  /\ cache' = s.cache
              /\ help' = [help EXCEPT
                            !.pc = "done", !.val = help.acc, !.err = s.err,
                            !.sets = @ + 1,
                            !.owner = IF ok
                                      THEN [k \in DOMAIN s.cache |->
                                              IF k = help.key THEN IdentityOf(help)
                                              ELSE help.owner[k]]
                                      ELSE @]
    /\ UNCHANGED helpFrame

\* The helper has returned: its locals are gone.
HelperReturned ==
    /\ help.pc = "done"
    /\ help' = [NoHelp EXCEPT !.owner = help.owner, !.calls = help.calls]
    /\ UNCHANGED << cache, helpFrame >>

HelpersInit ==
    /\ RetryIdle
    /\ AggIdle
    /\ PipeIdle
    /\ SumIdle
    /\ ChartIdle
    /\ RunIdle

HelpersNext ==
    \/ HelperGet
    \/ HelperFetchPage
    \/ HelperFetchRecord
    \/ HelperSet
    \/ HelperReturned

SpecHelpers == HelpersInit /\ [][HelpersNext]_vars

RECURSIVE ItemsOf(_)
\* The elements of the pages answered, in the order of the answers.
ItemsOf(as) ==
    IF as = <<>> THEN <<>>
    ELSE ItemsOf(SubSeq(as, 1, Len(as) - 1)) \o as[Len(as)].data.items

\* Every request of the fetch was answered with a payload of the helper's
\* type, and the last answer named no next page.
FetchComplete(h) ==
    /\ Len(h.answers) >= 1
    /\ \A k \in DOMAIN h.answers : h.answers[k].data.kind = HelperPayloadKind(h.fn)
    /\ h.fn \in PagedHelpers =>
         /\ h.answers[Len(h.answers)].resp.NextPage = 0
         /\ \A k \in 1..(Len(h.answers) - 1) : h.answers[k].resp.NextPage # 0
    /\ h.fn \notin PagedHelpers => Len(h.answers) = 1

\* What a complete fetch fetched.
Fetched(h) ==
    IF h.fn \in PagedHelpers THEN ItemsOf(h.answers) ELSE h.answers[1].data

\* The fetch of the call failed: a request failed or its payload was not of
\* the helper's type.
FetchFailedIn(h) == h.err # Nil /\ h.err.kind # "cache write error"

\* C38: a helper calls set at most once per invocation and only after the
\* complete fetch succeeded, with all that was fetched as the entry; on a
\* cache hit and whenever the fetch or a page of it fails the cache is as it
\* was when the helper was called.
C38_SetOnceAfterCompleteFetch ==
    [][ /\ help'.sets <= 1
        /\ help'.sets > help.sets =>
              /\ help.pc = "set"
              /\ help.sets = 0
              /\ ~help.hit
              /\ FetchComplete(help)
              /\ cache' \in { cache,
                              [k \in DOMAIN cache \cup {help.key} |->
                                 IF k = help.key
                                 THEN Blob(HelperField(help.fn), Fetched(help))
                                 ELSE cache[k]] }
        /\ cache' # cache => help'.sets > help.sets
        /\ (help'.pc = "done" /\ (help'.hit \/ FetchFailedIn(help'))) =>
              /\ help'.sets = 0
              /\ cache' = help'.c0
      ]_vars

\* The second page of a paged fetch failed after a first page with an
\* element: nothing was written.
C38_Witness ==
    /\ help.pc = "done"
    /\ help.fn = "PullRequestsListFiles"
    /\ Len(help.answers) = 1
    /\ Len(help.acc) = 1
    /\ FetchFailedIn(help)
    /\ help.key \notin DOMAIN cache

\* A helper stored a list of two pages.
C38_StoredTwoPages ==
    /\ help.pc = "done"
    /\ help.sets = 1
    /\ help.key \in DOMAIN cache
    /\ Len(help.answers) = 2
    /\ Len(cache[help.key][HelperField(help.fn)]) = 2

(***************************************************************************)
(* The cache keys of the helpers and the entities they stand for           *)
(* (pr.go 390, 421, 463, 506, 533, 574).                                   *)
(***************************************************************************)
\* The helper call in progress found an entry under its key.
HelperHit == help.pc = "done" /\ help.hit

\* C39: two different (entity kind, org, project, number) tuples never
\* produce the same key, so a cache hit in a helper yields an entry that a
\* helper of the same kind stored for the same entity.
C39_HitIsOwnEntity ==
    HelperHit => help.owner[help.key] = IdentityOf(help)

\* PullRequestsGet found the entry PullRequestsListComments stored for
\* another repository and returned its empty pull request field, without
\* error.
C39_HitOnOtherKind ==
    /\ HelperHit
    /\ help.fn = "PullRequestsGet"
    /\ help.owner[help.key].fn = "PullRequestsListComments"
    /\ help.val = Nil
    /\ help.err = Nil

\* A helper found the entry it stored itself for another repository.
C39_HitOnOtherRepo ==
    /\ HelperHit
    /\ help.owner[help.key].fn = help.fn
    /\ help.owner[help.key].repo # help.repo

\* A hit on the entry stored for the same entity.
C39_HitOnOwnEntry ==
    /\ HelperHit
    /\ help.owner[help.key] = IdentityOf(help)

(***************************************************************************)
(* Termination and completeness of the page aggregators (pr.go 58-95,      *)
(* 613-653, issue.go 96-170, repos.go 45-93, part_002 78-125).             *)
(***************************************************************************)
\* The aggregator runs on: the goroutine that called it is scheduled.
AggSteps ==
    /\ \/ AggStart
       \/ FetchPullRequestPage
       \/ FetchRepoPage
       \/ FetchPullRequestsListPage
       \/ FetchIssuePage
       \/ FetchIssuePageToken
    /\ UNCHANGED << retryVars, pipeVars, sumVars, chartVars, runVars >>

SpecPagesLive == PagesInit /\ [][PagesNext]_vars /\ WF_vars(AggSteps)

\* Every aggregator returns, whatever the requests are answered with.
C40_Terminates == <>AggDone

\* The answer ends the server's chain of pages: next page 0 or an empty
\* page in offset mode, an empty next cursor in cursor mode.
StopSignal(a) ==
    IF agg \in OffsetAggs THEN a.resp.NextPage = 0 \/ PageLen(a) = 0
    ELSE NextCursor(a) = ""

\* Every request so far succeeded and was answered with a page.
AllFetchesSucceeded ==
    /\ Len(reqs) = Len(answers)
    /\ \A k \in DOMAIN answers : IsPage(answers[k])

\* Request k asks for the page the answer before it named.
FollowsChain(k) ==
    CASE agg \in OffsetAggs -> reqs[k].Page = answers[k - 1].resp.NextPage
      [] agg = "fetchAllIssuePages" -> reqs[k].After = answers[k - 1].resp.After
      [] OTHER -> reqs[k].PageToken = answers[k - 1].resp.NextPageToken

\* C40: when every page fetch succeeds, every page aggregator returns the
\* complete listing, all pages up to the stop signal of the server's chain
\* in order; it sends one request per page of the chain, each for the page
\* the previous answer named, and none after the stop signal.
C40_CompleteListing ==
    AllFetchesSucceeded =>
        /\ \A k \in 1..(Len(answers) - 1) : ~StopSignal(answers[k])
        /\ \A k \in 2..Len(reqs) : FollowsChain(k)
        /\ AggDone =>
              /\ answers # <<>>
              /\ StopSignal(answers[Len(answers)])
              /\ aggRet.err = Nil
              /\ aggRet.items = Concat(answers)

\* The same for the aggregators of pr.go 58-95, issue.go 96-170 and
\* repos.go 45-93 alone.
C40_NamedAggregatorsComplete ==
    agg \in { "fetchAllPullRequestPages", "fetchAllIssuePages", "fetchAllRepoPages" }
        => C40_CompleteListing

\* The NextPageToken version of fetchAllIssuePages returned after an empty
\* page that named a next token.
C40_TokenStoppedEarly ==
    /\ agg = "fetchAllIssuePagesToken"
    /\ AggDone
    /\ AllFetchesSucceeded
    /\ aggRet.err = Nil
    /\ Len(answers) = 2
    /\ PageLen(answers[2]) = 0
    /\ answers[2].resp.NextPageToken # ""

\* FetchPullRequestsListPagesWithRetries asked for another page after an
\* empty one.
C40_WentOnAfterEmptyPage ==
    /\ agg = "FetchPullRequestsListPagesWithRetries"
    /\ AllFetchesSucceeded
    /\ Len(answers) = 2
    /\ PageLen(answers[1]) = 0

\* fetchAllIssuePages returned three pages after three requests.
C40_ThreePagesReturned ==
    /\ agg = "fetchAllIssuePages"
    /\ AggDone
    /\ AllFetchesSucceeded
    /\ Len(reqs) = 3
    /\ Len(aggRet.items) = 3 * MaxPageLen

=============================================================================
